---- MODULE Spec2Model ----
(***************************************************************************)
(* State-machine model of the catalog / order backend:                     *)
(*   models/Product.js (Catalog schema and its access methods),            *)
(*   models/Order.js, middlewares/auth.js,                                 *)
(*   routes/catalogs.js (catalog routes, lines 1-514; order routes,        *)
(*   lines 965-1361), routes/products.js, routes/claspImages.js (user      *)
(*   routes, lines 75-377), server.js (socket handlers, lines 129-201),    *)
(*   and the index creation of the seed script (unnamed/part_000).         *)
(* The data store, the socket registry and the handlers in flight are the  *)
(* shared state; an action is one request handler, from the auth           *)
(* middleware to the response, or the part of a handler between two awaits *)
(* where requests served concurrently are studied.                         *)
(***************************************************************************)
EXTENDS Integers, Sequences, FiniteSets, TLC

VARIABLES users, catalogs, products, orders, nextId, session, http,
          notifications, failing, dbIndexes, sockets, socketsByUser,
          inflight, resp

vars == <<users, catalogs, products, orders, nextId, session, http,
          notifications, failing, dbIndexes, sockets, socketsByUser,
          inflight, resp>>

store == <<users, catalogs, products, orders, nextId, session, http,
           notifications, failing, dbIndexes, sockets, socketsByUser,
           inflight>>

\* The part of the state most routes leave alone
\* The indexes of the Product collection, the socket registry and the
\* handlers that are between two awaits
runtime == <<dbIndexes, sockets, socketsByUser, inflight>>

aux == <<session, http, notifications, failing, runtime>>

(***************************************************************************)
(* Bounds of the model.                                                    *)
(***************************************************************************)
MaxCatalogs == 1
MaxOrderCatalogs == 2
MaxProducts == 1
MaxOrderProducts == 2
MaxOrders == 1
MaxAllowed == 1
MaxItems == 2

UserIds == {"u1", "u2", "u3"}
CatalogIds == 1..MaxCatalogs
ProductIds == 1..MaxProducts
OrderIds == 1..MaxOrders
OrderCatalogIds == 1..MaxOrderCatalogs
OrderProductIds == 1..MaxOrderProducts

(***************************************************************************)
(* Optional request fields: <<>> is "undefined", <<v>> carries v.          *)
(***************************************************************************)
Undefined == <<>>
Some(v) == <<v>>
IsDefined(m) == Len(m) = 1
ValueOf(m) == m[1]

(***************************************************************************)
(* Identifier representations.  ownerId and allowedUserIds are Mixed       *)
(* (models/Product.js:178-186): a stored id is a string, an ObjectId, or   *)
(* an object carrying _id.  val is the hex string of the id.               *)
(***************************************************************************)
ObjectObject == "[object Object]"

StrId(s) == [rep |-> "str", val |-> s]
OidId(s) == [rep |-> "oid", val |-> s]
ObjId(s) == [rep |-> "obj", val |-> s]
NullId == [rep |-> "null", val |-> ""]

\* JavaScript value.toString() / String(value)
toStr(v) ==
  CASE v.rep = "str" -> v.val
    [] v.rep = "oid" -> v.val
    [] v.rep = "obj" -> ObjectObject
    [] OTHER -> ""

\* mongoose.Types.ObjectId.isValid(s): the 24-hex strings are the user ids
ObjectIdIsValid(s) == s \in UserIds

\* Truthiness of an id value (null is falsy)
Truthy(v) == v.rep # "null"

toIdString(v) ==
  IF v.rep = "null" THEN ""
  ELSE IF v.rep = "obj" THEN v.val
  ELSE toStr(v)

(***************************************************************************)
(* Session / auth guard: the caller resolved by auth() is an existing      *)
(* user; id is the string form, role follows isAdmin.                      *)
(***************************************************************************)
Authenticated(u) == u \in DOMAIN users

Role(u) == IF users[u].isAdmin THEN "admin" ELSE "user"

ReqUserId(u) == u

(***************************************************************************)
(* Access policy (Catalog schema methods).                                 *)
(***************************************************************************)
\* Identifiers compared as stored, without normalisation
hasUserAccessRaw(catalog, userId) ==
  \/ catalog.ownerId = StrId(userId)
  \/ catalog.isPublic
  \/ \E i \in DOMAIN catalog.allowedUserIds :
        catalog.allowedUserIds[i] = StrId(userId)

hasUserAccess(catalog, userId) ==
  LET uid == userId
      owner == toIdString(catalog.ownerId)
  IN  \/ (owner # "" /\ uid # "" /\ owner = uid)
      \/ catalog.isPublic
      \/ \E i \in DOMAIN catalog.allowedUserIds :
            toIdString(catalog.allowedUserIds[i]) = uid

\* Edit rights extended to the allow-list
canUserEditAllowed(catalog, userId, userRole) ==
  \/ userRole = "admin"
  \/ toIdString(catalog.ownerId) = userId
  \/ \E i \in DOMAIN catalog.allowedUserIds :
        toIdString(catalog.allowedUserIds[i]) = userId

canUserEdit(catalog, userId, userRole) ==
  \/ userRole = "admin"
  \/ toIdString(catalog.ownerId) = userId

\* Catalog.findAccessibleByUser: the $or query matches by value and type
findAccessibleByUser(userId, userRole) ==
  IF userRole = "admin" THEN DOMAIN catalogs
  ELSE LET uid == userId
           hasOid == ObjectIdIsValid(uid)
           Matches(v) ==
             \/ v = StrId(uid)
             \/ v = ObjId(uid)
             \/ (hasOid /\ v = OidId(uid))
       IN {c \in DOMAIN catalogs :
             \/ catalogs[c].isPublic
             \/ Matches(catalogs[c].ownerId)
             \/ \E i \in DOMAIN catalogs[c].allowedUserIds :
                   Matches(catalogs[c].allowedUserIds[i])}

\* The in-memory filter of GET /api/catalogs
ListFilter(catalog, userIdStr) ==
  \/ catalog.isPublic
  \/ (Truthy(catalog.ownerId) /\ toStr(catalog.ownerId) = userIdStr)
  \/ /\ Len(catalog.allowedUserIds) > 0
     /\ \E i \in DOMAIN catalog.allowedUserIds :
           /\ Truthy(catalog.allowedUserIds[i])
           /\ toStr(catalog.allowedUserIds[i]) = userIdStr

ListedCatalogs(u) ==
  IF Role(u) = "admin" THEN DOMAIN catalogs
  ELSE {c \in DOMAIN catalogs : ListFilter(catalogs[c], ReqUserId(u))}

\* .populate('products'): ids that resolve to a product, in list order
Populate(list) == SelectSeq(list, LAMBDA p : p \in DOMAIN products)

(***************************************************************************)
(* Responses.                                                              *)
(***************************************************************************)
\* caller is "" for a route without auth; target is the id in the path (0: none)
Reply(op, caller, target, status) ==
  [op |-> op, caller |-> caller, target |-> target, status |-> status,
   msg |-> "", list |-> {}, products |-> <<>>]

ReplyMsg(op, caller, target, status, msg) ==
  [op |-> op, caller |-> caller, target |-> target, status |-> status,
   msg |-> msg, list |-> {}, products |-> <<>>]

ReplyList(op, caller, status, ids) ==
  [op |-> op, caller |-> caller, target |-> 0, status |-> status,
   msg |-> "", list |-> ids, products |-> <<>>]

ReplyProducts(op, caller, target, status, list) ==
  [op |-> op, caller |-> caller, target |-> target, status |-> status,
   msg |-> "", list |-> {}, products |-> list]

(***************************************************************************)
(* Normalisation of a submitted allow-list.                                *)
(***************************************************************************)
RECURSIVE DedupByString(_, _)
DedupByString(seq, seen) ==
  IF seq = <<>> THEN <<>>
  ELSE LET key == toStr(Head(seq))
       IN IF key \in seen
          THEN DedupByString(Tail(seq), seen)
          ELSE <<Head(seq)>> \o DedupByString(Tail(seq), seen \cup {key})

RECURSIVE WithObjectIds(_)
WithObjectIds(strings) ==
  IF strings = <<>> THEN <<>>
  ELSE LET s == Head(strings)
       IN <<s>> \o (IF ObjectIdIsValid(s.val) THEN <<OidId(s.val)>> ELSE <<>>)
              \o WithObjectIds(Tail(strings))

\* POST /api/catalogs: normalize(ids)
NormalizeOnCreate(ids) ==
  LET kept == SelectSeq(ids, Truthy)
      asStrings == DedupByString([i \in DOMAIN kept |-> StrId(toStr(kept[i]))], {})
  IN DedupByString(WithObjectIds(asStrings), {})

\* PUT /api/catalogs/:id/permissions: the normalisation loop
RECURSIVE NormalizePermissions(_, _)
NormalizePermissions(inputIds, seen) ==
  IF inputIds = <<>> THEN <<>>
  ELSE LET id == Head(inputIds)
           rest == Tail(inputIds)
       IN IF ~Truthy(id) THEN NormalizePermissions(rest, seen)
          ELSE LET strId == toStr(id)
               IN IF strId \in seen THEN NormalizePermissions(rest, seen)
                  ELSE LET seen1 == seen \cup {strId}
                           objIdStr == toStr(OidId(strId))
                           addOid == ObjectIdIsValid(strId) /\ objIdStr \notin seen1
                           seen2 == IF addOid THEN seen1 \cup {objIdStr} ELSE seen1
                       IN <<StrId(strId)>>
                            \o (IF addOid THEN <<OidId(strId)>> ELSE <<>>)
                            \o NormalizePermissions(rest, seen2)

(***************************************************************************)
(* Catalog routes (routes/catalogs.js, lines 1-514).                       *)
(***************************************************************************)
WithoutKey(f, k) == [x \in DOMAIN f \ {k} |-> f[x]]

\* GET /api/catalogs/migrate-public (no auth middleware)
MigratePublic ==
  /\ catalogs' = [c \in DOMAIN catalogs |-> [catalogs[c] EXCEPT !.isPublic = TRUE]]
  /\ resp' = Reply("migratePublic", "", 0, 200)
  /\ UNCHANGED <<users, products, orders, nextId, aux>>

\* GET /api/catalogs
ListCatalogs(u) ==
  /\ Authenticated(u)
  /\ resp' = ReplyList("listCatalogs", u, 200, ListedCatalogs(u))
  /\ UNCHANGED store

\* GET /api/catalogs/:id
GetCatalog(u, c) ==
  /\ Authenticated(u)
  /\ resp' = IF c \notin DOMAIN catalogs THEN Reply("getCatalog", u, c, 404)
             ELSE IF Role(u) # "admin" /\ ~hasUserAccess(catalogs[c], ReqUserId(u))
                  THEN Reply("getCatalog", u, c, 403)
             ELSE ReplyProducts("getCatalog", u, c, 200, Populate(catalogs[c].products))
  /\ UNCHANGED store

\* POST /api/catalogs
CreateCatalog(u, body) ==
  /\ Authenticated(u)
  /\ IF Role(u) # "admin"
     THEN /\ resp' = Reply("createCatalog", u, 0, 403)
          /\ UNCHANGED store
     ELSE IF ~IsDefined(body.name)
     THEN /\ resp' = Reply("createCatalog", u, 0, 400)
          /\ UNCHANGED store
     ELSE /\ catalogs' = catalogs @@ (nextId.catalog :>
                [name |-> ValueOf(body.name),
                 ownerId |-> StrId(ReqUserId(u)),
                 allowedUserIds |-> IF IsDefined(body.allowedUserIds)
                                    THEN NormalizeOnCreate(ValueOf(body.allowedUserIds))
                                    ELSE <<>>,
                 isPublic |-> IF IsDefined(body.isPublic)
                              THEN ValueOf(body.isPublic) ELSE TRUE,
                 products |-> <<>>])
          /\ nextId' = [nextId EXCEPT !.catalog = @ + 1]
          /\ resp' = Reply("createCatalog", u, nextId.catalog, 201)
          /\ UNCHANGED <<users, products, orders, aux>>

\* PUT /api/catalogs/:id
UpdateCatalog(u, c, body) ==
  /\ Authenticated(u)
  /\ IF c \notin DOMAIN catalogs
     THEN /\ resp' = Reply("updateCatalog", u, c, 404)
          /\ UNCHANGED store
     ELSE IF Role(u) # "admin" /\ ~canUserEdit(catalogs[c], ReqUserId(u), Role(u))
     THEN /\ resp' = Reply("updateCatalog", u, c, 403)
          /\ UNCHANGED store
     ELSE /\ catalogs' = [catalogs EXCEPT ![c] =
                [name |-> IF IsDefined(body.name) THEN ValueOf(body.name) ELSE @.name,
                 ownerId |-> @.ownerId,
                 allowedUserIds |-> IF IsDefined(body.allowedUserIds)
                                    THEN ValueOf(body.allowedUserIds)
                                    ELSE @.allowedUserIds,
                 isPublic |-> IF IsDefined(body.isPublic)
                              THEN ValueOf(body.isPublic) ELSE @.isPublic,
                 products |-> @.products]]
          /\ resp' = Reply("updateCatalog", u, c, 200)
          /\ UNCHANGED <<users, products, orders, nextId, aux>>

\* A catalog deletion that leaves the catalog's products in the store
DeleteCatalogOnly(u, c) ==
  /\ Authenticated(u)
  /\ IF c \notin DOMAIN catalogs
     THEN /\ resp' = Reply("deleteCatalog", u, c, 404)
          /\ UNCHANGED store
     ELSE IF Role(u) # "admin" /\ ~canUserEdit(catalogs[c], ReqUserId(u), Role(u))
     THEN /\ resp' = Reply("deleteCatalog", u, c, 403)
          /\ UNCHANGED store
     ELSE /\ catalogs' = WithoutKey(catalogs, c)
          /\ resp' = Reply("deleteCatalog", u, c, 200)
          /\ UNCHANGED <<users, products, orders, nextId, aux>>

\* DELETE /api/catalogs/:id
DeleteCatalog(u, c) ==
  /\ Authenticated(u)
  /\ IF c \notin DOMAIN catalogs
     THEN /\ resp' = Reply("deleteCatalog", u, c, 404)
          /\ UNCHANGED store
     ELSE IF Role(u) # "admin" /\ ~canUserEdit(catalogs[c], ReqUserId(u), Role(u))
     THEN /\ resp' = Reply("deleteCatalog", u, c, 403)
          /\ UNCHANGED store
     ELSE /\ products' = [p \in {q \in DOMAIN products : products[q].catalogId # c}
                            |-> products[p]]
          /\ catalogs' = WithoutKey(catalogs, c)
          /\ resp' = Reply("deleteCatalog", u, c, 200)
          /\ UNCHANGED <<users, orders, nextId, aux>>

\* String.prototype.trim, also applied by the schema's `trim: true` setter
RECURSIVE trim(_)
trim(str) ==
  IF Len(str) > 0 /\ SubSeq(str, 1, 1) = " " THEN trim(SubSeq(str, 2, Len(str)))
  ELSE IF Len(str) > 0 /\ SubSeq(str, Len(str), Len(str)) = " "
  THEN trim(SubSeq(str, 1, Len(str) - 1))
  ELSE str

\* product.save() rejects (E11000) when the unique index on serialNumber
\* exists and a product other than `self` already holds the serial number
DuplicateKey(serialNumber, self) ==
  /\ "serialNumber" \in dbIndexes
  /\ \E q \in DOMAIN products \ {self} : products[q].serialNumber = serialNumber

\* POST /api/catalogs/:id/products
AddProduct(u, c, body) ==
  /\ Authenticated(u)
  /\ IF c \notin DOMAIN catalogs
     THEN /\ resp' = Reply("addProduct", u, c, 404)
          /\ UNCHANGED store
     ELSE IF ~canUserEdit(catalogs[c], ReqUserId(u), Role(u))
     THEN /\ resp' = Reply("addProduct", u, c, 403)
          /\ UNCHANGED store
     ELSE IF ~IsDefined(body.name) \/ ~IsDefined(body.serialNumber)
     THEN /\ resp' = Reply("addProduct", u, c, 400)
          /\ UNCHANGED store
     ELSE IF DuplicateKey(trim(ValueOf(body.serialNumber)), 0)
     THEN /\ resp' = Reply("addProduct", u, c, 500)
          /\ UNCHANGED store
     ELSE /\ products' = products @@ (nextId.product :>
                [name |-> ValueOf(body.name),
                 serialNumber |-> trim(ValueOf(body.serialNumber)),
                 price |-> body.price,
                 size |-> body.size,
                 catalogId |-> c,
                 createdBy |-> ReqUserId(u)])
          /\ catalogs' = [catalogs EXCEPT ![c].products = Append(@, nextId.product)]
          /\ nextId' = [nextId EXCEPT !.product = @ + 1]
          /\ resp' = ReplyProducts("addProduct", u, c, 201,
                        SelectSeq(catalogs'[c].products,
                                  LAMBDA p : p \in DOMAIN products'))
          /\ UNCHANGED <<users, orders, aux>>

\* DELETE /api/catalogs/:id/products/:productId
RemoveProduct(u, c, productId) ==
  /\ Authenticated(u)
  /\ IF c \notin DOMAIN catalogs
     THEN /\ resp' = Reply("removeProduct", u, c, 404)
          /\ UNCHANGED store
     ELSE IF ~canUserEdit(catalogs[c], ReqUserId(u), Role(u))
     THEN /\ resp' = Reply("removeProduct", u, c, 403)
          /\ UNCHANGED store
     ELSE /\ products' = WithoutKey(products, productId)
          /\ catalogs' = [catalogs EXCEPT ![c].products =
                            SelectSeq(@, LAMBDA id : id # productId)]
          /\ resp' = ReplyProducts("removeProduct", u, c, 200,
                        SelectSeq(catalogs'[c].products,
                                  LAMBDA p : p \in DOMAIN products'))
          /\ UNCHANGED <<users, orders, nextId, aux>>

\* PUT /api/catalogs/:id/permissions
UpdatePermissions(u, c, body) ==
  /\ Authenticated(u)
  /\ IF c \notin DOMAIN catalogs
     THEN /\ resp' = Reply("updatePermissions", u, c, 404)
          /\ UNCHANGED store
     ELSE IF Role(u) # "admin" /\ toStr(catalogs[c].ownerId) # ReqUserId(u)
     THEN /\ resp' = Reply("updatePermissions", u, c, 403)
          /\ UNCHANGED store
     ELSE /\ catalogs' = [catalogs EXCEPT ![c] =
                [name |-> @.name,
                 ownerId |-> @.ownerId,
                 allowedUserIds |-> IF IsDefined(body.allowedUserIds)
                                    THEN NormalizePermissions(ValueOf(body.allowedUserIds), {})
                                    ELSE @.allowedUserIds,
                 isPublic |-> IF IsDefined(body.isPublic)
                              THEN ValueOf(body.isPublic) ELSE @.isPublic,
                 products |-> @.products]]
          /\ resp' = Reply("updatePermissions", u, c, 200)
          /\ UNCHANGED <<users, products, orders, nextId, aux>>

(***************************************************************************)
(* Order routes (routes/catalogs.js, lines 965-1361).                      *)
(***************************************************************************)
ValidStatuses == {"pending", "confirmed", "shipped", "delivered", "cancelled"}

\* validateOrderData middleware: TRUE when next() is called
validateOrderData(body) ==
  /\ IsDefined(body.catalogId)
  /\ Len(body.items) > 0
  /\ \A i \in DOMAIN body.items : body.items[i].quantity >= 1

\* Order.calculateTotal
RECURSIVE calculateTotal(_)
calculateTotal(items) ==
  IF items = <<>> THEN 0
  ELSE calculateTotal(SubSeq(items, 1, Len(items) - 1))
         + items[Len(items)].price * items[Len(items)].quantity

\* Membership in some catalog's list, whichever catalog it is
InSomeCatalogList(catalog, productId) ==
  \E c \in DOMAIN catalogs :
     \E i \in DOMAIN catalogs[c].products : catalogs[c].products[i] = productId

InCatalogList(catalog, productId) ==
  \E i \in DOMAIN catalog.products : catalog.products[i] = productId

\* The item loop of POST /api/orders: stops at the first failing item
RECURSIVE ProcessItems(_, _, _, _)
ProcessItems(items, catalog, orderItems, totalAmount) ==
  IF items = <<>>
  THEN [status |-> 201, msg |-> "", items |-> orderItems, total |-> totalAmount]
  ELSE LET item == Head(items)
       IN IF item.productId \notin DOMAIN products
          THEN [status |-> 404, msg |-> "product not found", items |-> <<>>, total |-> 0]
          ELSE IF ~InCatalogList(catalog, item.productId)
          THEN [status |-> 400, msg |-> "product not in catalog", items |-> <<>>, total |-> 0]
          ELSE LET product == products[item.productId]
                   itemTotal == product.price * item.quantity
                   orderItem == [productId |-> item.productId,
                                 quantity |-> item.quantity,
                                 price |-> product.price,
                                 name |-> product.name,
                                 size |-> item.size]
               IN ProcessItems(Tail(items), catalog,
                               Append(orderItems, orderItem),
                               totalAmount + itemTotal)

\* An order built from the prices and total the client sent
NewOrderTrustingClient(u, body, result) ==
  [userId |-> ReqUserId(u),
   catalogId |-> ValueOf(body.catalogId),
   items |-> [i \in DOMAIN result.items |->
                [result.items[i] EXCEPT !.price = body.items[i].price]],
   status |-> "pending",
   totalAmount |-> body.totalAmount]

\* An order that takes the status the client sent
NewOrderClientStatus(u, body, result) ==
  [userId |-> ReqUserId(u),
   catalogId |-> ValueOf(body.catalogId),
   items |-> result.items,
   status |-> body.status,
   totalAmount |-> result.total]

\* new Order({userId, catalogId, items, totalAmount, notes}); status defaults
NewOrder(u, body, result) ==
  [userId |-> ReqUserId(u),
   catalogId |-> ValueOf(body.catalogId),
   items |-> result.items,
   status |-> "pending",
   totalAmount |-> result.total]

\* User.find({ isAdmin: true }): the admins, in insertion order
UserOrder == <<"u1", "u2", "u3">>

AdminsInOrder ==
  SelectSeq(UserOrder, LAMBDA a : a \in DOMAIN users /\ users[a].isAdmin)

\* io.to(sid).emit('notification', ...) for every socket registered under
\* the admin: the socket ids the event is sent to
Emitted(admin) ==
  IF admin \in DOMAIN socketsByUser THEN socketsByUser[admin] ELSE {}

\* Notification.create for admins[i..]: the write for an admin in `failing`
\* rejects, which leaves the loop; the writes before it stay
RECURSIVE NotifyFrom(_, _, _, _)
NotifyFrom(admins, i, u, orderId) ==
  IF i > Len(admins) \/ admins[i] \in failing THEN <<>>
  ELSE <<[user |-> admins[i], from |-> u, orderId |-> orderId,
          emitted |-> Emitted(admins[i])]>>
         \o NotifyFrom(admins, i + 1, u, orderId)

\* The try block around the fan-out (routes/catalogs.js:1086-1126)
NotifyAdmins(u, orderId) == NotifyFrom(AdminsInOrder, 1, u, orderId)

NotifyThrows == \E i \in DOMAIN AdminsInOrder : AdminsInOrder[i] \in failing

\* POST /api/orders without the access check on the catalog
CreateOrderNoAccessCheck(u, body) ==
  /\ Authenticated(u)
  /\ IF ~validateOrderData(body)
     THEN /\ resp' = ReplyMsg("createOrder", u, 0, 400, "validation")
          /\ UNCHANGED store
     ELSE IF ValueOf(body.catalogId) \notin DOMAIN catalogs
     THEN /\ resp' = ReplyMsg("createOrder", u, 0, 404, "catalog not found")
          /\ UNCHANGED store
     ELSE LET result == ProcessItems(body.items, catalogs[ValueOf(body.catalogId)], <<>>, 0)
          IN IF result.status # 201
             THEN /\ resp' = ReplyMsg("createOrder", u, 0, result.status, result.msg)
                  /\ UNCHANGED store
             ELSE /\ nextId.order <= MaxOrders
                  /\ orders' = orders @@ (nextId.order :> NewOrder(u, body, result))
                  /\ nextId' = [nextId EXCEPT !.order = @ + 1]
                  /\ notifications' = notifications \o NotifyAdmins(u, nextId.order)
                  /\ resp' = Reply("createOrder", u, nextId.order, 201)
                  /\ UNCHANGED <<users, catalogs, products, session, http, failing, runtime>>

\* POST /api/orders with the fan-out outside any try block of its own: a
\* failed notification write reaches the handler's catch
CreateOrderNotifyUncaught(u, body) ==
  /\ Authenticated(u)
  /\ IF ~validateOrderData(body)
     THEN /\ resp' = ReplyMsg("createOrder", u, 0, 400, "validation")
          /\ UNCHANGED store
     ELSE IF ValueOf(body.catalogId) \notin DOMAIN catalogs
     THEN /\ resp' = ReplyMsg("createOrder", u, 0, 404, "catalog not found")
          /\ UNCHANGED store
     ELSE IF ~hasUserAccess(catalogs[ValueOf(body.catalogId)], ReqUserId(u))
     THEN /\ resp' = ReplyMsg("createOrder", u, 0, 403, "access denied")
          /\ UNCHANGED store
     ELSE LET result == ProcessItems(body.items, catalogs[ValueOf(body.catalogId)], <<>>, 0)
          IN IF result.status # 201
             THEN /\ resp' = ReplyMsg("createOrder", u, 0, result.status, result.msg)
                  /\ UNCHANGED store
             ELSE /\ nextId.order <= MaxOrders
                  /\ orders' = orders @@ (nextId.order :> NewOrder(u, body, result))
                  /\ nextId' = [nextId EXCEPT !.order = @ + 1]
                  /\ notifications' = notifications \o NotifyAdmins(u, nextId.order)
                  /\ resp' = IF NotifyThrows
                             THEN Reply("createOrder", u, nextId.order, 500)
                             ELSE Reply("createOrder", u, nextId.order, 201)
                  /\ UNCHANGED <<users, catalogs, products, session, http, failing, runtime>>

\* POST /api/orders
CreateOrder(u, body) ==
  /\ Authenticated(u)
  /\ IF ~validateOrderData(body)
     THEN /\ resp' = ReplyMsg("createOrder", u, 0, 400, "validation")
          /\ UNCHANGED store
     ELSE IF ValueOf(body.catalogId) \notin DOMAIN catalogs
     THEN /\ resp' = ReplyMsg("createOrder", u, 0, 404, "catalog not found")
          /\ UNCHANGED store
     ELSE IF ~hasUserAccess(catalogs[ValueOf(body.catalogId)], ReqUserId(u))
     THEN /\ resp' = ReplyMsg("createOrder", u, 0, 403, "access denied")
          /\ UNCHANGED store
     ELSE LET result == ProcessItems(body.items, catalogs[ValueOf(body.catalogId)], <<>>, 0)
          IN IF result.status # 201
             THEN /\ resp' = ReplyMsg("createOrder", u, 0, result.status, result.msg)
                  /\ UNCHANGED store
             ELSE /\ nextId.order <= MaxOrders
                  /\ orders' = orders @@ (nextId.order :> NewOrder(u, body, result))
                  /\ nextId' = [nextId EXCEPT !.order = @ + 1]
                  /\ notifications' = notifications \o NotifyAdmins(u, nextId.order)
                  /\ resp' = Reply("createOrder", u, nextId.order, 201)
                  /\ UNCHANGED <<users, catalogs, products, session, http, failing, runtime>>

\* A status update open to every authenticated caller
UpdateOrderStatusAnyCaller(u, o, status) ==
  /\ Authenticated(u)
  /\ IF ~IsDefined(status) \/ ValueOf(status) \notin ValidStatuses
     THEN /\ resp' = Reply("updateOrderStatus", u, o, 400)
          /\ UNCHANGED store
     ELSE IF o \notin DOMAIN orders
     THEN /\ resp' = Reply("updateOrderStatus", u, o, 404)
          /\ UNCHANGED store
     ELSE /\ orders' = [orders EXCEPT ![o].status = ValueOf(status)]
          /\ resp' = Reply("updateOrderStatus", u, o, 200)
          /\ UNCHANGED <<users, catalogs, products, nextId, aux>>

\* PUT /api/orders/:id/status
UpdateOrderStatus(u, o, status) ==
  /\ Authenticated(u)
  /\ IF Role(u) # "admin"
     THEN /\ resp' = Reply("updateOrderStatus", u, o, 403)
          /\ UNCHANGED store
     ELSE IF ~IsDefined(status) \/ ValueOf(status) \notin ValidStatuses
     THEN /\ resp' = Reply("updateOrderStatus", u, o, 400)
          /\ UNCHANGED store
     ELSE IF o \notin DOMAIN orders
     THEN /\ resp' = Reply("updateOrderStatus", u, o, 404)
          /\ UNCHANGED store
     ELSE /\ orders' = [orders EXCEPT ![o].status = ValueOf(status)]
          /\ resp' = Reply("updateOrderStatus", u, o, 200)
          /\ UNCHANGED <<users, catalogs, products, nextId, aux>>

\* PUT /api/orders/:id/cancel
CancelOrder(u, o) ==
  /\ Authenticated(u)
  /\ IF o \notin DOMAIN orders
     THEN /\ resp' = Reply("cancelOrder", u, o, 404)
          /\ UNCHANGED store
     ELSE IF Role(u) # "admin" /\ orders[o].userId \notin DOMAIN users
     THEN /\ resp' = Reply("cancelOrder", u, o, 500)
          /\ UNCHANGED store
     ELSE IF Role(u) # "admin" /\ orders[o].userId # ReqUserId(u)
     THEN /\ resp' = Reply("cancelOrder", u, o, 403)
          /\ UNCHANGED store
     ELSE IF orders[o].status = "delivered"
     THEN /\ resp' = ReplyMsg("cancelOrder", u, o, 400, "delivered")
          /\ UNCHANGED store
     ELSE IF orders[o].status = "cancelled"
     THEN /\ resp' = ReplyMsg("cancelOrder", u, o, 400, "already cancelled")
          /\ UNCHANGED store
     ELSE /\ orders' = [orders EXCEPT ![o].status = "cancelled"]
          /\ resp' = Reply("cancelOrder", u, o, 200)
          /\ UNCHANGED <<users, catalogs, products, nextId, aux>>

\* DELETE /api/orders/:id
DeleteOrder(u, o) ==
  /\ Authenticated(u)
  /\ IF Role(u) # "admin"
     THEN /\ resp' = Reply("deleteOrder", u, o, 403)
          /\ UNCHANGED store
     ELSE IF o \notin DOMAIN orders
     THEN /\ resp' = Reply("deleteOrder", u, o, 404)
          /\ UNCHANGED store
     ELSE /\ orders' = WithoutKey(orders, o)
          /\ resp' = Reply("deleteOrder", u, o, 200)
          /\ UNCHANGED <<users, catalogs, products, nextId, aux>>

\* Order.findById(id).populate('userId'): the owner's id, or '' when the
\* user document is gone and populate leaves null
PopulatedOwnerId(order) ==
  IF order.userId \in DOMAIN users THEN order.userId ELSE ""

ReplyOrders(op, caller, target, status, ids) ==
  [op |-> op, caller |-> caller, target |-> target, status |-> status,
   msg |-> "", list |-> ids, products |-> <<>>]

\* The where-clauses of Order.findWithFilters and Order.findByUser
MatchesFilters(order, filters) ==
  /\ IsDefined(filters.status) => order.status = ValueOf(filters.status)
  /\ IsDefined(filters.userId) => order.userId = ValueOf(filters.userId)

\* GET /api/orders
ListOrders(u, filters) ==
  /\ Authenticated(u)
  /\ resp' = IF Role(u) # "admin"
             THEN ReplyOrders("listOrders", u, 0, 403, {})
             ELSE ReplyOrders("listOrders", u, 0, 200,
                    {o \in DOMAIN orders : MatchesFilters(orders[o], filters)})
  /\ UNCHANGED store

\* GET /api/orders/my
MyOrders(u, status) ==
  /\ Authenticated(u)
  /\ resp' = ReplyOrders("myOrders", u, 0, 200,
                {o \in DOMAIN orders :
                   MatchesFilters(orders[o],
                                  [status |-> status, userId |-> Some(ReqUserId(u))])})
  /\ UNCHANGED store

\* An order read without the permission check
GetOrderAnyCaller(u, o) ==
  /\ Authenticated(u)
  /\ resp' = IF o \notin DOMAIN orders
             THEN ReplyOrders("getOrder", u, o, 404, {})
             ELSE ReplyOrders("getOrder", u, o, 200, {o})
  /\ UNCHANGED store

\* GET /api/orders/:id
GetOrder(u, o) ==
  /\ Authenticated(u)
  /\ resp' = IF o \notin DOMAIN orders
             THEN ReplyOrders("getOrder", u, o, 404, {})
             ELSE IF Role(u) # "admin" /\ PopulatedOwnerId(orders[o]) # ReqUserId(u)
             THEN ReplyOrders("getOrder", u, o, 403, {})
             ELSE ReplyOrders("getOrder", u, o, 200, {o})
  /\ UNCHANGED store

(***************************************************************************)
(* Product routes (routes/products.js), guarded by adminAuth.              *)
(***************************************************************************)
adminAuth(u) == users[u].isAdmin

\* A product update that re-joins the orders: items of product p follow its
\* new name, price and size
UpdateProductLiveJoin(u, p, body) ==
  /\ Authenticated(u)
  /\ IF ~adminAuth(u)
     THEN /\ resp' = Reply("updateProduct", u, p, 403)
          /\ UNCHANGED store
     ELSE IF p \notin DOMAIN products
     THEN /\ resp' = Reply("updateProduct", u, p, 404)
          /\ UNCHANGED store
     ELSE /\ products' = [products EXCEPT ![p] =
                [name |-> IF IsDefined(body.name) THEN ValueOf(body.name) ELSE @.name,
                 serialNumber |-> IF IsDefined(body.serialNumber)
                                  THEN trim(ValueOf(body.serialNumber))
                                  ELSE @.serialNumber,
                 price |-> IF IsDefined(body.price) THEN ValueOf(body.price) ELSE @.price,
                 size |-> IF IsDefined(body.size) THEN ValueOf(body.size) ELSE @.size,
                 catalogId |-> @.catalogId,
                 createdBy |-> @.createdBy]]
          /\ orders' = [o \in DOMAIN orders |->
                [orders[o] EXCEPT !.items =
                   [i \in DOMAIN orders[o].items |->
                      IF orders[o].items[i].productId = p
                      THEN [orders[o].items[i] EXCEPT !.name = products'[p].name,
                                                      !.price = products'[p].price,
                                                      !.size = products'[p].size]
                      ELSE orders[o].items[i]]]]
          /\ resp' = Reply("updateProduct", u, p, 200)
          /\ UNCHANGED <<users, catalogs, nextId, aux>>

\* PUT /api/products/:id
UpdateProduct(u, p, body) ==
  /\ Authenticated(u)
  /\ IF ~adminAuth(u)
     THEN /\ resp' = Reply("updateProduct", u, p, 403)
          /\ UNCHANGED store
     ELSE IF p \notin DOMAIN products
     THEN /\ resp' = Reply("updateProduct", u, p, 404)
          /\ UNCHANGED store
     ELSE IF IsDefined(body.price) /\ ValueOf(body.price) < 0
     THEN /\ resp' = Reply("updateProduct", u, p, 500)
          /\ UNCHANGED store
     ELSE IF /\ IsDefined(body.serialNumber)
             /\ DuplicateKey(trim(ValueOf(body.serialNumber)), p)
     THEN /\ resp' = Reply("updateProduct", u, p, 500)
          /\ UNCHANGED store
     ELSE /\ products' = [products EXCEPT ![p] =
                [name |-> IF IsDefined(body.name) THEN ValueOf(body.name) ELSE @.name,
                 serialNumber |-> IF IsDefined(body.serialNumber)
                                  THEN trim(ValueOf(body.serialNumber))
                                  ELSE @.serialNumber,
                 price |-> IF IsDefined(body.price) THEN ValueOf(body.price) ELSE @.price,
                 size |-> IF IsDefined(body.size) THEN ValueOf(body.size) ELSE @.size,
                 catalogId |-> @.catalogId,
                 createdBy |-> @.createdBy]]
          /\ resp' = Reply("updateProduct", u, p, 200)
          /\ UNCHANGED <<users, catalogs, orders, nextId, aux>>

\* DELETE /api/products/:id
DeleteProduct(u, p) ==
  /\ Authenticated(u)
  /\ IF ~adminAuth(u)
     THEN /\ resp' = Reply("deleteProduct", u, p, 403)
          /\ UNCHANGED store
     ELSE IF p \notin DOMAIN products
     THEN /\ resp' = Reply("deleteProduct", u, p, 404)
          /\ UNCHANGED store
     ELSE /\ products' = WithoutKey(products, p)
          /\ resp' = Reply("deleteProduct", u, p, 200)
          /\ UNCHANGED <<users, catalogs, orders, nextId, aux>>

\* GET /api/products/:id: the product is found when the caller created it
\* (accessibleTo stays empty and isActive true for every product the
\* catalog routes create)
GetProduct(u, p) ==
  /\ Authenticated(u)
  /\ resp' = IF p \in DOMAIN products /\ products[p].createdBy = ReqUserId(u)
             THEN Reply("getProduct", u, p, 200)
             ELSE Reply("getProduct", u, p, 404)
  /\ UNCHANGED store

(***************************************************************************)
(* User routes (routes/claspImages.js, lines 75-377).                      *)
(***************************************************************************)
\* PUT /api/users/:id
UpdateUser(u, target, role) ==
  /\ Authenticated(u)
  /\ IF ~users[u].isAdmin
     THEN /\ resp' = Reply("updateUser", u, 0, 403)
          /\ UNCHANGED store
     ELSE IF target \notin DOMAIN users
     THEN /\ resp' = Reply("updateUser", u, 0, 404)
          /\ UNCHANGED store
     ELSE /\ users' = [users EXCEPT ![target].isAdmin =
                          IF IsDefined(role) THEN ValueOf(role) = "admin" ELSE @]
          /\ resp' = Reply("updateUser", u, 0, 200)
          /\ UNCHANGED <<catalogs, products, orders, nextId, aux>>

(***************************************************************************)
(* The auth middleware in detail (middlewares/auth.js:4-122).              *)
(* Instants are epoch seconds.  Epoch is the instant the model starts at;  *)
(* it is chosen so that the millisecond form of an instant still fits a    *)
(* 32-bit integer, and MsThreshold (1e12 in the source) is scaled with it: *)
(* every instant in seconds is below it, every instant in milliseconds     *)
(* above it.                                                               *)
(***************************************************************************)
MaxTime == 2
MaxIssued == 2
TokenTtl == 2
Epoch == 2000000
MsPerSecond == 1000
MsThreshold == 1000000000

Instants == Epoch..(Epoch + MaxTime)

\* Authorization header after .replace('Bearer ', ''): an opaque string, or
\* a well-formed JWT with its signing secret and payload
RawToken(text) ==
  [kind |-> "raw", text |-> text, secret |-> "", userId |-> "", iat |-> 0, exp |-> 0]

Jwt(secret, userId, iat, exp) ==
  [kind |-> "jwt", text |-> "", secret |-> secret, userId |-> userId,
   iat |-> iat, exp |-> exp]

StartsWith(s, prefix) ==
  Len(s) >= Len(prefix) /\ SubSeq(s, 1, Len(prefix)) = prefix

EndsWith(s, suffix) ==
  Len(s) >= Len(suffix) /\ SubSeq(s, Len(s) - Len(suffix) + 1, Len(s)) = suffix

TestPrefix == "test-token-"

\* token.replace('test-token-', '') + (token.endsWith('@test.com') ? '' : '@test.com')
TestTokenEmail(text) ==
  SubSeq(text, Len(TestPrefix) + 1, Len(text))
    \o (IF EndsWith(text, "@test.com") THEN "" ELSE "@test.com")

\* process.env.JWT_SECRET || 'your-secret-key'
DefaultSecret == "your-secret-key"

ServerSecret ==
  IF IsDefined(session.env.jwtSecret) THEN ValueOf(session.env.jwtSecret)
  ELSE DefaultSecret

\* process.env.TOKEN_INVALID_BEFORE: unset, epoch seconds, epoch
\* milliseconds, a date string, or a string that is neither.  at is the
\* instant meant, num the number Number() or Date.parse() yields.
UnsetCutoff == [form |-> "unset", at |-> 0, num |-> 0]
SecondsCutoff(t) == [form |-> "seconds", at |-> t, num |-> t]
MillisCutoff(t) == [form |-> "millis", at |-> t, num |-> t * MsPerSecond]
DateCutoff(t) == [form |-> "date", at |-> t, num |-> t * MsPerSecond]
GarbageCutoff == [form |-> "garbage", at |-> 0, num |-> 0]

\* auth.js:60-67
CutoffSeconds(env) ==
  IF env.form \in {"seconds", "millis"}
  THEN IF env.num > MsThreshold THEN env.num \div MsPerSecond ELSE env.num
  ELSE IF env.form = "date" THEN env.num \div MsPerSecond
  ELSE 0

\* jwt.verify(token, secret): signature first, then expiry
jwtVerify(token) ==
  IF token.kind # "jwt" \/ token.secret # ServerSecret THEN "invalid"
  ELSE IF session.now >= token.exp THEN "expired"
  ELSE "ok"

Denied(status, msg) ==
  [next |-> FALSE, status |-> status, msg |-> msg, user |-> "", isAdmin |-> FALSE]

Granted(u) ==
  [next |-> TRUE, status |-> 0, msg |-> "", user |-> u, isAdmin |-> users[u].isAdmin]

\* auth(req, res, next): the response it sends, or the req.user it sets
\* before calling next()
auth(token) ==
  IF token.kind = "raw" /\ token.text = ""
  THEN Denied(401, "No token, authorization denied")
  ELSE IF token.kind = "raw" /\ StartsWith(token.text, TestPrefix)
  THEN LET email == TestTokenEmail(token.text)
           found == {u \in DOMAIN users : users[u].email = email}
       IN  IF found = {}
           THEN Denied(401, "Invalid test token - user not found")
           ELSE Granted(CHOOSE u \in found : TRUE)
  ELSE IF jwtVerify(token) = "expired" THEN Denied(401, "Token expired")
  ELSE IF jwtVerify(token) = "invalid" THEN Denied(401, "Token is not valid")
  ELSE IF /\ session.env.cutoff.form # "unset"
          /\ CutoffSeconds(session.env.cutoff) # 0
          /\ token.iat # 0
          /\ token.iat < CutoffSeconds(session.env.cutoff)
  THEN Denied(401, "Token invalidated")
  ELSE IF token.userId \notin DOMAIN users
  THEN Denied(401, "Token is not valid")
  ELSE Granted(token.userId)

\* The response object: the statuses written, and whether a write after the
\* headers were sent threw (ERR_HTTP_HEADERS_SENT)
NoRequest == [token |-> RawToken(""), sent |-> <<>>, thrown |-> FALSE,
              handled |-> FALSE, user |-> ""]

NewRequest(token) == [NoRequest EXCEPT !.token = token]

Send(req, status) ==
  IF Len(req.sent) > 0 THEN [req EXCEPT !.thrown = TRUE]
  ELSE [req EXCEPT !.sent = <<status>>]

\* next() reaching the route handler, which answers 200
Handle(req, u) ==
  Send([req EXCEPT !.handled = TRUE, !.user = u], 200)

\* auth as route middleware
authGuard(req) ==
  LET a == auth(req.token)
  IN  IF a.next THEN Handle(req, a.user) ELSE Send(req, a.status)

\* An admin guard that lets every authenticated caller through
adminAuthAnyUser(req) ==
  LET a == auth(req.token)
      afterAuth == IF a.next THEN req ELSE Send(req, a.status)
  IN  IF ~a.next THEN Send(afterAuth, 401)
      ELSE Handle(afterAuth, a.user)

\* adminAuth(req, res, next): auth runs with an empty next; req.user.isAdmin
\* throws when auth has answered instead, and the catch answers 401 again
adminAuthGuard(req) ==
  LET a == auth(req.token)
      afterAuth == IF a.next THEN req ELSE Send(req, a.status)
  IN  IF ~a.next THEN Send(afterAuth, 401)
      ELSE IF ~a.isAdmin THEN Send(afterAuth, 403)
      ELSE Handle(afterAuth, a.user)

LastStatus(req) == IF Len(req.sent) > 0 THEN req.sent[Len(req.sent)] ELSE 0

\* GET /api/auth/me
Me(token) ==
  /\ http' = authGuard(NewRequest(token))
  /\ resp' = Reply("me", http'.user, 0, LastStatus(http'))
  /\ UNCHANGED <<users, catalogs, products, orders, nextId, session,
                 notifications, failing, runtime>>

\* GET /api/admin/users
AdminUsers(token) ==
  /\ http' = adminAuthGuard(NewRequest(token))
  /\ resp' = Reply("adminUsers", http'.user, 0, LastStatus(http'))
  /\ UNCHANGED <<users, catalogs, products, orders, nextId, session,
                 notifications, failing, runtime>>

\* POST /api/auth/login with the e-mail of account u
Login(u, passwordMatches) ==
  IF u \notin DOMAIN users \/ ~users[u].isActive \/ ~passwordMatches
  THEN /\ resp' = Reply("login", u, 0, 400)
       /\ UNCHANGED store
  ELSE LET token == Jwt(ServerSecret, u, session.now, session.now + TokenTtl)
       IN  /\ token \in session.issued \/ Cardinality(session.issued) < MaxIssued
           /\ session' = [session EXCEPT !.issued = @ \cup {token}]
           /\ resp' = Reply("login", u, 0, 200)
           /\ UNCHANGED <<users, catalogs, products, orders, nextId, http,
                          notifications, failing, runtime>>

\* PATCH /api/users/:id/status
ToggleUserStatus(u, target) ==
  /\ Authenticated(u)
  /\ IF ~users[u].isAdmin
     THEN /\ resp' = Reply("toggleUserStatus", u, 0, 403)
          /\ UNCHANGED store
     ELSE IF target = ReqUserId(u)
     THEN /\ resp' = Reply("toggleUserStatus", u, 0, 400)
          /\ UNCHANGED store
     ELSE IF target \notin DOMAIN users
     THEN /\ resp' = Reply("toggleUserStatus", u, 0, 404)
          /\ UNCHANGED store
     ELSE /\ users' = [users EXCEPT ![target].isActive = ~@]
          /\ resp' = Reply("toggleUserStatus", u, 0, 200)
          /\ UNCHANGED <<catalogs, products, orders, nextId, aux>>

\* One second passes
Tick ==
  /\ session.now < Epoch + MaxTime
  /\ session' = [session EXCEPT !.now = @ + 1]
  /\ UNCHANGED <<users, catalogs, products, orders, nextId, http, resp,
                 notifications, failing, runtime>>

(***************************************************************************)
(* Request inputs.                                                         *)
(***************************************************************************)
SeqsUpTo(S, n) == UNION {[1..k -> S] : k \in 0..n}

Optional(S) == {Undefined} \cup {Some(v) : v \in S}

CatalogNames == {"n1"}
RoleTargets == {"u2"}
RoleInputs == Optional({"user", "admin"})

\* Allow-list entries as JSON sends them: an id string or an object {_id}
AllowElems == {StrId("u3"), ObjId("u3")}
AllowLists == SeqsUpTo(AllowElems, MaxAllowed)

\* POST bodies: a name (or none) with an allow-list and a visibility
CreateBodiesOver(lists) ==
  [name : {Some(n) : n \in CatalogNames},
   allowedUserIds : Optional(lists),
   isPublic : {Undefined, Some(FALSE)}]
    \cup {[name |-> Undefined, allowedUserIds |-> Undefined, isPublic |-> Undefined]}

\* PUT bodies: at most one field is sent
UpdateBodiesOver(lists) ==
  {[name |-> n, allowedUserIds |-> Undefined, isPublic |-> Undefined] :
      n \in Optional(CatalogNames)}
    \cup {[name |-> Undefined, allowedUserIds |-> Some(l), isPublic |-> Undefined] :
             l \in lists}
    \cup {[name |-> Undefined, allowedUserIds |-> Undefined, isPublic |-> Some(b)] :
             b \in BOOLEAN}

PermissionBodiesOver(lists) ==
  {[allowedUserIds |-> Undefined, isPublic |-> Undefined]}
    \cup {[allowedUserIds |-> Some(l), isPublic |-> Undefined] : l \in lists}
    \cup {[allowedUserIds |-> Undefined, isPublic |-> Some(b)] : b \in BOOLEAN}

(***************************************************************************)
(* The users of the seed script: two admins and one user.                  *)
(***************************************************************************)
SeedEmails == [u1 |-> "admin@asawer.com", u2 |-> "admin@test.com", u3 |-> "user@test.com"]

SeedUsers ==
  [u \in UserIds |-> [isAdmin |-> u \in {"u1", "u2"}, isActive |-> TRUE,
                      email |-> SeedEmails[u]]]

\* Product.collection.createIndex({ serialNumber: 1 }, { unique: true }): the
\* unique index exists in a database the seed script has initialised
SeededIndexes == {"serialNumber"}

\* Environment of the server process: JWT_SECRET set, no cutoff
DefaultEnv == [jwtSecret |-> Some("s3cret"), cutoff |-> UnsetCutoff]

(***************************************************************************)
(* Spec: catalog visibility.  Catalogs are created, re-configured, listed  *)
(* and read; user u2 is promoted and demoted.                              *)
(***************************************************************************)
Init ==
  /\ users = SeedUsers
  /\ catalogs = <<>>
  /\ products = <<>>
  /\ orders = <<>>
  /\ nextId = [catalog |-> 1, product |-> 1, order |-> 1]
  /\ session = [now |-> Epoch, issued |-> {}, env |-> DefaultEnv]
  /\ http = NoRequest
  /\ notifications = <<>>
  /\ failing = {}
  /\ dbIndexes = SeededIndexes
  /\ sockets = <<>>
  /\ socketsByUser = <<>>
  /\ inflight = {}
  /\ resp = Reply("none", "", 0, 0)

Next ==
  \/ MigratePublic
  \/ \E u \in UserIds : ListCatalogs(u)
  \/ \E u \in UserIds, c \in CatalogIds : GetCatalog(u, c)
  \/ \E u \in UserIds, body \in CreateBodiesOver(AllowLists) :
        nextId.catalog <= MaxCatalogs /\ CreateCatalog(u, body)
  \/ \E u \in UserIds, c \in CatalogIds, body \in UpdateBodiesOver(AllowLists) :
        UpdateCatalog(u, c, body)
  \/ \E u \in UserIds, c \in CatalogIds : DeleteCatalog(u, c)
  \/ \E u \in UserIds, c \in CatalogIds, body \in PermissionBodiesOver(AllowLists) :
        UpdatePermissions(u, c, body)
  \/ \E u \in UserIds, t \in RoleTargets, role \in RoleInputs : UpdateUser(u, t, role)

Spec == Init /\ [][Next]_vars

(***************************************************************************)
(* SpecPlace: ordering against one catalog whose visibility changes.       *)
(* u1 and u2 are admins, u3 is a plain user.                               *)
(***************************************************************************)
\* A serial number no product carries yet
FreshSerial == "SN" \o ToString(nextId.product)

ProductBody(name, price) ==
  [name |-> name, serialNumber |-> Some(FreshSerial), price |-> price, size |-> "M"]

\* One item as the client sends it; the client's own price is 5
OrderItem(p, q) == [productId |-> p, quantity |-> q, price |-> 5, size |-> "M"]

OrderBody(cid, items) ==
  [catalogId |-> cid, items |-> items, totalAmount |-> 1, status |-> "delivered"]

PlaceLists == {<<>>, <<StrId("u3")>>}

\* A public catalog with no allow-list
PublicCatalogBody ==
  [name |-> Some("n1"), allowedUserIds |-> Undefined, isPublic |-> Undefined]

\* A private catalog with no allow-list
PrivateCatalogBody ==
  [name |-> Some("n1"), allowedUserIds |-> Undefined, isPublic |-> Some(FALSE)]

\* The admin who keeps the shop, and the user who orders
Sellers == {"u1"}
Buyers == {"u3"}

PlaceOrderBodies ==
  {OrderBody(cid, items) :
     cid \in Optional(CatalogIds),
     items \in {<<>>} \cup {<<OrderItem(p, q)>> : p \in ProductIds, q \in {0, 1}}}

NextPlace ==
  \/ \E u \in UserIds : ListCatalogs(u)
  \/ \E u \in UserIds, c \in CatalogIds : GetCatalog(u, c)
  \/ \E u \in Sellers, body \in CreateBodiesOver({<<>>}) :
        nextId.catalog <= MaxCatalogs /\ CreateCatalog(u, body)
  \/ \E u \in Sellers, c \in CatalogIds, body \in PermissionBodiesOver(PlaceLists) :
        UpdatePermissions(u, c, body)
  \/ \E u \in Sellers, c \in CatalogIds :
        nextId.product <= MaxProducts /\ AddProduct(u, c, ProductBody(Some("p"), 100))
  \/ \E u \in UserIds, body \in PlaceOrderBodies : CreateOrder(u, body)

SpecPlace == Init /\ [][NextPlace]_vars

(***************************************************************************)
(* SpecEdit: the catalog-mutating routes on one catalog and its products.  *)
(* u2 can be demoted, so that a catalog's owner may be a plain user.       *)
(***************************************************************************)
EditLists == {<<>>, <<StrId("u3")>>}

EditProductBodies == {ProductBody(Some("p"), 100), ProductBody(Undefined, 100)}

NextEdit ==
  \/ \E u \in UserIds, body \in CreateBodiesOver(EditLists) :
        nextId.catalog <= MaxCatalogs /\ CreateCatalog(u, body)
  \/ \E u \in UserIds, c \in CatalogIds, body \in UpdateBodiesOver(EditLists) :
        UpdateCatalog(u, c, body)
  \/ \E u \in UserIds, c \in CatalogIds : DeleteCatalog(u, c)
  \/ \E u \in UserIds, c \in CatalogIds, body \in EditProductBodies :
        nextId.product <= MaxProducts /\ AddProduct(u, c, body)
  \/ \E u \in UserIds, c \in CatalogIds, p \in ProductIds : RemoveProduct(u, c, p)
  \/ \E u \in UserIds, c \in CatalogIds, body \in PermissionBodiesOver(EditLists) :
        UpdatePermissions(u, c, body)
  \/ \E u \in UserIds, t \in RoleTargets, role \in RoleInputs : UpdateUser(u, t, role)

SpecEdit == Init /\ [][NextEdit]_vars

(***************************************************************************)
(* SpecOrders: two catalogs, their products and the orders placed against  *)
(* them.  Products are priced 100 when added and may be re-priced to 250;  *)
(* product id 0 is never assigned.                                         *)
(***************************************************************************)
\* Quantity 3 of any product id, or quantity 1 of the first product
ItemInputs == {OrderItem(p, 3) : p \in OrderProductIds \cup {0}} \cup {OrderItem(1, 1)}

OrderBodies ==
  {OrderBody(Some(c), items) :
     c \in OrderCatalogIds, items \in SeqsUpTo(ItemInputs, MaxItems)}

PriceBody(price) ==
  [name |-> Undefined, serialNumber |-> Undefined, price |-> Some(price),
   size |-> Undefined]

NextOrders ==
  \/ \E u \in Sellers, body \in {PublicCatalogBody, PrivateCatalogBody} :
        nextId.catalog <= MaxOrderCatalogs /\ CreateCatalog(u, body)
  \/ \E u \in Sellers, c \in OrderCatalogIds :
        nextId.product <= MaxOrderProducts /\ AddProduct(u, c, ProductBody(Some("p"), 100))
  \/ \E u \in Sellers, p \in OrderProductIds : UpdateProduct(u, p, PriceBody(250))
  \/ \E u \in Buyers, body \in OrderBodies : CreateOrder(u, body)

SpecOrders == Init /\ [][NextOrders]_vars

(***************************************************************************)
(* SpecSnapshot: an order is placed, then its product is edited, deleted   *)
(* or removed with its catalog.                                            *)
(***************************************************************************)
SingleItemBodies ==
  {OrderBody(Some(c), <<OrderItem(p, 3)>>) : c \in CatalogIds, p \in ProductIds}

\* A full edit (name, price and size) or a re-pricing alone
ProductEdits ==
  {[name |-> Some("q"), serialNumber |-> Undefined, price |-> Some(250),
    size |-> Some("L")],
   [name |-> Undefined, serialNumber |-> Undefined, price |-> Some(250),
    size |-> Undefined]}

NextSnapshot ==
  \/ \E u \in Sellers :
        nextId.catalog <= MaxCatalogs /\ CreateCatalog(u, PublicCatalogBody)
  \/ \E u \in Sellers, c \in CatalogIds :
        nextId.product <= MaxProducts /\ AddProduct(u, c, ProductBody(Some("p"), 100))
  \/ \E u \in Buyers, body \in SingleItemBodies : CreateOrder(u, body)
  \/ \E u \in UserIds, p \in ProductIds, body \in ProductEdits : UpdateProduct(u, p, body)
  \/ \E u \in UserIds, p \in ProductIds : DeleteProduct(u, p)
  \/ \E u \in UserIds, c \in CatalogIds, p \in ProductIds : RemoveProduct(u, c, p)
  \/ \E u \in UserIds, c \in CatalogIds : DeleteCatalog(u, c)

SpecSnapshot == Init /\ [][NextSnapshot]_vars

(***************************************************************************)
(* SpecLifecycle: an order is placed, then its status is set, it is        *)
(* cancelled or deleted.                                                   *)
(***************************************************************************)
StatusInputs == Optional(ValidStatuses \cup {"returned"})

NextLifecycle ==
  \/ \E u \in Sellers :
        nextId.catalog <= MaxCatalogs /\ CreateCatalog(u, PublicCatalogBody)
  \/ \E u \in Sellers, c \in CatalogIds :
        nextId.product <= MaxProducts /\ AddProduct(u, c, ProductBody(Some("p"), 100))
  \/ \E u \in UserIds, body \in SingleItemBodies : CreateOrder(u, body)
  \/ \E u \in UserIds, o \in OrderIds, status \in StatusInputs :
        UpdateOrderStatus(u, o, status)
  \/ \E u \in UserIds, o \in OrderIds : CancelOrder(u, o)
  \/ \E u \in UserIds, o \in OrderIds : DeleteOrder(u, o)

SpecLifecycle == Init /\ [][NextLifecycle]_vars

(***************************************************************************)
(* The access policy as the specification states it, over the canonical    *)
(* string form of a stored identifier (the hex string, whatever the        *)
(* representation).                                                        *)
(***************************************************************************)
CanonicalId(v) == v.val

IsCanonicalOwner(catalog, u) == CanonicalId(catalog.ownerId) = u

IsCanonicalAllowed(catalog, u) ==
  \E i \in DOMAIN catalog.allowedUserIds : CanonicalId(catalog.allowedUserIds[i]) = u

MayRead(catalog, u) ==
  catalog.isPublic \/ IsCanonicalOwner(catalog, u) \/ IsCanonicalAllowed(catalog, u)

\* C1: a non-admin caller of GET /api/catalogs/:id on an existing catalog is
\* granted (200, with the populated product list) exactly when the catalog is
\* public, or the caller is its owner, or the caller is on its allow-list,
\* identifiers compared in canonical string form; otherwise the answer is 403.
C1_ReadAccess ==
  [][\A u \in UserIds, c \in CatalogIds :
        (/\ c \in DOMAIN catalogs /\ Role(u) # "admin"
         /\ resp'.op = "getCatalog" /\ resp'.caller = u /\ resp'.target = c
         /\ GetCatalog(u, c))
          => /\ resp'.status = (IF MayRead(catalogs[c], u) THEN 200 ELSE 403)
             /\ resp'.status = 200
                  => resp'.products = SelectSeq(catalogs[c].products,
                                                LAMBDA p : p \in DOMAIN products)
             /\ UNCHANGED store]_vars

\* u3, a plain user who does not own the private catalog, is on its allow-list
\* as an object carrying _id, and has just read it
C1_Witness ==
  /\ resp.op = "getCatalog" /\ resp.status = 200 /\ resp.caller = "u3"
  /\ ~users["u3"].isAdmin
  /\ resp.target \in DOMAIN catalogs
  /\ ~catalogs[resp.target].isPublic
  /\ ~IsCanonicalOwner(catalogs[resp.target], "u3")
  /\ \E i \in DOMAIN catalogs[resp.target].allowedUserIds :
        catalogs[resp.target].allowedUserIds[i] = ObjId("u3")

\* The decision GET /api/catalogs/:id takes for caller u on catalog c
ReadGranted(u, c) == Role(u) = "admin" \/ hasUserAccess(catalogs[c], ReqUserId(u))

\* C3: the listing GET /api/catalogs returns exactly the catalogs for which
\* the single-catalog read check would grant the same caller access.
C3_ListingMatchesRead ==
  resp.op = "listCatalogs"
    => resp.list = {c \in DOMAIN catalogs : ReadGranted(resp.caller, c)}

\* C2: a caller with role admin is never answered 403 by the catalog listing,
\* the catalog detail read or order placement, and the listing returns every
\* catalog, whatever the catalog's isPublic, ownerId and allowedUserIds are.
C2_AdminNeverDenied ==
  (resp.op \in {"listCatalogs", "getCatalog", "createOrder"}
     /\ resp.caller \in DOMAIN users /\ users[resp.caller].isAdmin)
    => /\ resp.status # 403
       /\ resp.op = "listCatalogs" => resp.list = DOMAIN catalogs

\* The order request names an existing catalog the caller may not read
DeniedCatalog(u, body) ==
  /\ IsDefined(body.catalogId)
  /\ ValueOf(body.catalogId) \in DOMAIN catalogs
  /\ Role(u) # "admin"
  /\ ~MayRead(catalogs[ValueOf(body.catalogId)], u)

\* The body passes the validation middleware's rules
WellFormedOrder(body) ==
  /\ IsDefined(body.catalogId)
  /\ body.items # <<>>
  /\ \A i \in DOMAIN body.items : body.items[i].quantity >= 1

CatalogMutationOps ==
  {"updateCatalog", "deleteCatalog", "addProduct", "removeProduct",
   "updatePermissions"}

CatalogMutation(u, c) ==
  \/ \E body \in UpdateBodiesOver(EditLists) : UpdateCatalog(u, c, body)
  \/ DeleteCatalog(u, c)
  \/ \E body \in EditProductBodies : AddProduct(u, c, body)
  \/ \E p \in ProductIds : RemoveProduct(u, c, p)
  \/ \E body \in PermissionBodiesOver(EditLists) : UpdatePermissions(u, c, body)

\* C4: update catalog, delete catalog, add product, remove product and update
\* permissions, called on an existing catalog by a caller who is neither admin
\* nor the catalog's owner, answer 403 and leave every catalog (product lists
\* included) and every product unchanged, even when the caller is on the
\* allow-list or the catalog is public.
\* (Stated as the contrapositive: a step of such a caller that is anything
\* else than a 403 without change is not one of these requests.)
C4_OnlyAdminOrOwnerMutates ==
  [][resp'.op \in CatalogMutationOps
        => LET u == resp'.caller
               c == resp'.target
           IN  (/\ c \in DOMAIN catalogs
                /\ Role(u) # "admin"
                /\ ~IsCanonicalOwner(catalogs[c], u)
                /\ ~(resp'.status = 403 /\ catalogs' = catalogs /\ products' = products))
               => ~CatalogMutation(u, c)]_vars

\* u3, allow-listed on the catalog and not its owner, has just been refused a
\* mutation while the catalog lists a product
C4_Witness ==
  /\ resp.op \in CatalogMutationOps
  /\ resp.status = 403 /\ resp.caller = "u3"
  /\ resp.target \in DOMAIN catalogs
  /\ IsCanonicalAllowed(catalogs[resp.target], "u3")
  /\ ~IsCanonicalOwner(catalogs[resp.target], "u3")
  /\ catalogs[resp.target].products # <<>>

\* The order a successful POST /api/orders has just stored
PlacedOrder == orders'[resp'.target]

\* C6: for every successfully placed order, each stored item carries the
\* quantity asked for and the price the product store held for its product
\* while the request was handled, and totalAmount is the sum of price times
\* quantity over the stored items; the price and total sent by the client
\* (5 and 1 in every request) are not used.
C6_ServerSideTotal ==
  [][\A u \in Buyers, body \in OrderBodies :
        (/\ resp'.op = "createOrder" /\ resp'.status = 201 /\ resp'.caller = u
         /\ CreateOrder(u, body))
          => /\ Len(PlacedOrder.items) = Len(body.items)
             /\ \A i \in DOMAIN body.items :
                   /\ PlacedOrder.items[i].productId = body.items[i].productId
                   /\ PlacedOrder.items[i].quantity = body.items[i].quantity
                   /\ PlacedOrder.items[i].price = products[body.items[i].productId].price
             /\ PlacedOrder.totalAmount = calculateTotal(PlacedOrder.items)]_vars

\* An order of two items at different server prices: 100 x 1 + 250 x 3
C6_Witness ==
  /\ resp.op = "createOrder" /\ resp.status = 201
  /\ resp.target \in DOMAIN orders
  /\ Len(orders[resp.target].items) = 2
  /\ orders[resp.target].items[1].price = 100
  /\ orders[resp.target].items[1].quantity = 1
  /\ orders[resp.target].items[2].price = 250
  /\ orders[resp.target].items[2].quantity = 3
  /\ orders[resp.target].totalAmount = 850

\* C8: every order created by POST /api/orders is stored with status pending,
\* although every request body carries status "delivered"; an order of a single
\* item of a product priced 100 with quantity 3 is stored with totalAmount 300.
C8_StartsPending ==
  [][(/\ resp'.op = "createOrder" /\ resp'.status = 201
      /\ \E u \in Buyers, body \in SingleItemBodies : CreateOrder(u, body))
        => /\ PlacedOrder.status = "pending"
           /\ (/\ Len(PlacedOrder.items) = 1
               /\ PlacedOrder.items[1].quantity = 3
               /\ products[PlacedOrder.items[1].productId].price = 100)
                => PlacedOrder.totalAmount = 300]_vars

\* u3 has ordered quantity 3 of a product priced 100
C8_Witness ==
  /\ resp.op = "createOrder" /\ resp.status = 201 /\ resp.caller = "u3"
  /\ resp.target \in DOMAIN orders
  /\ orders[resp.target].status = "pending"
  /\ Len(orders[resp.target].items) = 1
  /\ orders[resp.target].items[1].price = 100
  /\ orders[resp.target].items[1].quantity = 3
  /\ orders[resp.target].totalAmount = 300

\* Item i of the request names an existing product of another catalog
ForeignItem(body, i) ==
  /\ body.items[i].productId \in DOMAIN products
  /\ products[body.items[i].productId].catalogId # ValueOf(body.catalogId)

HasForeignItem(body) == \E i \in DOMAIN body.items : ForeignItem(body, i)

\* Every item before the first foreign one names an existing product
NoMissingBeforeForeign(body) ==
  \E i \in DOMAIN body.items :
     /\ ForeignItem(body, i)
     /\ \A j \in 1..(i - 1) : body.items[j].productId \in DOMAIN products

ProductChange ==
  \/ \E u \in UserIds, p \in ProductIds, body \in ProductEdits : UpdateProduct(u, p, body)
  \/ \E u \in UserIds, p \in ProductIds : DeleteProduct(u, p)
  \/ \E u \in UserIds, c \in CatalogIds, p \in ProductIds : RemoveProduct(u, c, p)
  \/ \E u \in UserIds, c \in CatalogIds : DeleteCatalog(u, c)

\* C7: an update of a product's name, price or size, or the deletion of a
\* product (alone, through its catalog's product route, or with its catalog),
\* leaves every stored order in place with the same item names, prices and
\* sizes and the same totalAmount.
C7_OrderSnapshot ==
  [][(/\ resp'.op \in {"updateProduct", "deleteProduct", "removeProduct", "deleteCatalog"}
      /\ ProductChange)
        => \A o \in DOMAIN orders :
              /\ o \in DOMAIN orders'
              /\ orders'[o].totalAmount = orders[o].totalAmount
              /\ DOMAIN orders'[o].items = DOMAIN orders[o].items
              /\ \A i \in DOMAIN orders[o].items :
                    /\ orders'[o].items[i].name = orders[o].items[i].name
                    /\ orders'[o].items[i].price = orders[o].items[i].price
                    /\ orders'[o].items[i].size = orders[o].items[i].size]_vars

\* The product of an order item has just been re-priced to 250 while the
\* item still carries 100 and the order still totals 300
C7_Witness ==
  /\ resp.op = "updateProduct" /\ resp.status = 200
  /\ \E o \in DOMAIN orders :
        /\ orders[o].totalAmount = 300
        /\ orders[o].items[1].price = 100
        /\ orders[o].items[1].productId \in DOMAIN products
        /\ products[orders[o].items[1].productId].price = 250

\* C10: an order whose status is delivered or cancelled keeps that status in
\* every later state; no request moves it to another status.
C10_TerminalStatuses ==
  [][\A o \in DOMAIN orders :
        (orders[o].status \in {"delivered", "cancelled"} /\ o \in DOMAIN orders')
          => orders'[o].status = orders[o].status]_vars

(***************************************************************************)
(* Order state machine of the specification: pending -> confirmed ->       *)
(* shipped -> delivered, and cancellation from any non-terminal status.    *)
(***************************************************************************)
AllowedTransitions ==
  {<<"pending", "confirmed">>, <<"confirmed", "shipped">>,
   <<"shipped", "delivered">>, <<"pending", "cancelled">>,
   <<"confirmed", "cancelled">>, <<"shipped", "cancelled">>}

\* C11: every status change made by PUT /:id/status is one of the allowed
\* transitions; a request for any other transition leaves the status as it
\* was and is not answered 200.
C11_StatusFollowsStateMachine ==
  [][(resp'.op = "updateOrderStatus" /\ resp'.target \in DOMAIN orders)
        => LET o == resp'.target
           IN  \/ /\ o \in DOMAIN orders'
                  /\ orders'[o].status = orders[o].status
                  /\ resp'.status # 200
               \/ /\ o \in DOMAIN orders'
                  /\ <<orders[o].status, orders'[o].status>> \in AllowedTransitions]_vars

(***************************************************************************)
(* SpecCancel: orders are placed, moved along by an admin and cancelled,   *)
(* while an admin may delete another user's account                        *)
(* (routes/claspImages.js:221-249).                                        *)
(***************************************************************************)
\* DELETE /api/users/:id
DeleteUser(u, target) ==
  /\ Authenticated(u)
  /\ IF ~users[u].isAdmin
     THEN /\ resp' = Reply("deleteUser", u, 0, 403)
          /\ UNCHANGED store
     ELSE IF target = ReqUserId(u)
     THEN /\ resp' = Reply("deleteUser", u, 0, 400)
          /\ UNCHANGED store
     ELSE IF target \notin DOMAIN users
     THEN /\ resp' = Reply("deleteUser", u, 0, 404)
          /\ UNCHANGED store
     ELSE /\ users' = WithoutKey(users, target)
          /\ resp' = Reply("deleteUser", u, 0, 200)
          /\ UNCHANGED <<catalogs, products, orders, nextId, aux>>

CancelStatusInputs == {Some("shipped"), Some("delivered")}

NextCancel ==
  \/ \E u \in Sellers :
        nextId.catalog <= MaxCatalogs /\ CreateCatalog(u, PublicCatalogBody)
  \/ \E u \in Sellers, c \in CatalogIds :
        nextId.product <= MaxProducts /\ AddProduct(u, c, ProductBody(Some("p"), 100))
  \/ \E u \in UserIds, body \in SingleItemBodies : CreateOrder(u, body)
  \/ \E u \in UserIds, o \in OrderIds, status \in CancelStatusInputs :
        UpdateOrderStatus(u, o, status)
  \/ \E u \in UserIds, o \in OrderIds : CancelOrder(u, o)
  \/ \E u \in UserIds, t \in UserIds : DeleteUser(u, t)

SpecCancel == Init /\ [][NextCancel]_vars

Cancellable == {"pending", "confirmed", "shipped"}

\* C12: PUT /:id/cancel on an existing order answers 200 and sets the status
\* to cancelled exactly when the caller is an admin or the order's owner and
\* the status is pending, confirmed or shipped; a caller who is neither is
\* answered 403, a delivered or cancelled order 400, and every failing
\* request leaves the orders unchanged.
C12_CancelContract ==
  [][(resp'.op = "cancelOrder" /\ resp'.target \in DOMAIN orders)
        => LET o == resp'.target
               u == resp'.caller
               entitled == Role(u) = "admin" \/ orders[o].userId = ReqUserId(u)
           IN  IF entitled /\ orders[o].status \in Cancellable
               THEN /\ resp'.status = 200
                    /\ orders' = [orders EXCEPT ![o].status = "cancelled"]
               ELSE /\ orders' = orders
                    /\ resp'.status = IF entitled THEN 400 ELSE 403]_vars

\* C13: PUT /:id/status changes an order only for an admin caller and a
\* status of the enum, and then stores exactly that status; a non-admin is
\* answered 403, an admin sending a missing or unknown status 400, an admin
\* naming an unknown order 404, and none of these requests changes an order.
\* (Stated as the contrapositive: a step that breaks these rules for caller u,
\* order o and requested status is not that request.)
C13_SetStatusGuards ==
  [][resp'.op = "updateOrderStatus"
        => \A status \in StatusInputs :
              LET u == resp'.caller
                  o == resp'.target
                  admin == Role(u) = "admin"
                  valid == IsDefined(status) /\ ValueOf(status) \in ValidStatuses
                  Guarded ==
                    /\ ~admin => (resp'.status = 403 /\ orders' = orders)
                    /\ (admin /\ ~valid) => (resp'.status = 400 /\ orders' = orders)
                    /\ (admin /\ valid /\ o \notin DOMAIN orders)
                          => (resp'.status = 404 /\ orders' = orders)
                    /\ orders' # orders
                          => /\ admin /\ valid /\ resp'.status = 200
                             /\ orders' = [orders EXCEPT ![o].status = ValueOf(status)]
              IN  ~Guarded => ~UpdateOrderStatus(u, o, status)]_vars

\* A plain user's status request on an existing pending order was refused
C13_Witness ==
  /\ resp.op = "updateOrderStatus"
  /\ resp.status = 403
  /\ Role(resp.caller) = "user"
  /\ resp.target \in DOMAIN orders
  /\ orders[resp.target].status = "pending"

(***************************************************************************)
(* SpecDelete: two catalogs and their products are created, catalogs are   *)
(* deleted, products are removed and product ids are fetched.              *)
(***************************************************************************)
Creators == {"u1", "u3"}

NextDelete ==
  \/ \E u \in Creators :
        nextId.catalog <= MaxOrderCatalogs /\ CreateCatalog(u, PublicCatalogBody)
  \/ \E u \in Creators, c \in OrderCatalogIds :
        nextId.product <= MaxOrderProducts
          /\ AddProduct(u, c, ProductBody(Some("p"), 100))
  \/ \E u \in UserIds, c \in OrderCatalogIds : DeleteCatalog(u, c)
  \/ \E u \in UserIds, p \in OrderProductIds : GetProduct(u, p)
  \/ \E u \in Creators, c \in OrderCatalogIds, p \in OrderProductIds :
        RemoveProduct(u, c, p)
  \/ \E u \in Creators, p \in OrderProductIds : DeleteProduct(u, p)

SpecDelete == Init /\ [][NextDelete]_vars

\* Product p belongs to catalog c: it is in the catalog's list or points at it
BelongsTo(p, c) ==
  products[p].catalogId = c \/ InCatalogList(catalogs[c], p)

\* C14: a completed catalog deletion removes the catalog and every product
\* that belonged to it and leaves the other catalogs and their products as
\* they were; a product id that is gone never comes back, and fetching it
\* answers 404.
C14_DeleteCascades ==
  [][/\ \A c \in DOMAIN catalogs :
          (resp'.op = "deleteCatalog" /\ resp'.target = c /\ resp'.status = 200)
          => /\ c \notin DOMAIN catalogs'
             /\ \A p \in DOMAIN products :
                   IF BelongsTo(p, c)
                   THEN p \notin DOMAIN products'
                   ELSE p \in DOMAIN products' /\ products'[p] = products[p]
             /\ \A d \in DOMAIN catalogs \ {c} :
                   d \in DOMAIN catalogs' /\ catalogs'[d] = catalogs[d]
     /\ \A p \in 1..(nextId.product - 1) :
          p \notin DOMAIN products => p \notin DOMAIN products'
     /\ (resp'.op = "getProduct" /\ resp'.target \notin DOMAIN products)
          => resp'.status = 404]_vars

\* A catalog holding a product was deleted while another catalog keeps its own
C14_Witness ==
  /\ resp.op = "deleteCatalog"
  /\ resp.status = 200
  /\ resp.target \notin DOMAIN catalogs
  /\ \E p \in 1..(nextId.product - 1) : p \notin DOMAIN products
  /\ \E d \in DOMAIN catalogs, p \in DOMAIN products : products[p].catalogId = d

(***************************************************************************)
(* SpecAuth: the server starts under some environment; users log in, time  *)
(* passes, an admin toggles or deletes an account, and requests carrying   *)
(* any credential a client can produce reach a route behind auth and a     *)
(* route behind adminAuth.                                                 *)
(***************************************************************************)
CutoffInputs ==
  {UnsetCutoff, SecondsCutoff(Epoch + 1), MillisCutoff(Epoch + 1),
   DateCutoff(Epoch + 1), GarbageCutoff}

\* Every cutoff form under a configured secret, and the bare environment
EnvInputs ==
  {[jwtSecret |-> Some("s3cret"), cutoff |-> c] : c \in CutoffInputs}
    \cup {[jwtSecret |-> Undefined, cutoff |-> UnsetCutoff]}

LoginUsers == {"u2", "u3"}
Operators == {"u1"}
Accounts == {"u3"}

\* Strings a client can put in the Authorization header without the server
RawTokens ==
  {RawToken(""), RawToken("garbage"), RawToken("test-token-admin"),
   RawToken("test-token-user@test.com"), RawToken("test-token-admin@asawer.com")}

\* JWTs a client can sign itself: with a guessed secret or the default one
ForgedTokens ==
  {Jwt(s, "u2", session.now, session.now + TokenTtl) : s \in {"guess", DefaultSecret}}

TokenInputs == RawTokens \cup ForgedTokens \cup session.issued

InitAuth ==
  /\ users = SeedUsers
  /\ catalogs = <<>>
  /\ products = <<>>
  /\ orders = <<>>
  /\ nextId = [catalog |-> 1, product |-> 1, order |-> 1]
  /\ \E env \in EnvInputs : session = [now |-> Epoch, issued |-> {}, env |-> env]
  /\ http = NoRequest
  /\ notifications = <<>>
  /\ failing = {}
  /\ dbIndexes = SeededIndexes
  /\ sockets = <<>>
  /\ socketsByUser = <<>>
  /\ inflight = {}
  /\ resp = Reply("none", "", 0, 0)

NextAuth ==
  \/ Tick
  \/ \E u \in LoginUsers, passwordMatches \in BOOLEAN : Login(u, passwordMatches)
  \/ \E u \in Operators, t \in Accounts : ToggleUserStatus(u, t)
  \/ \E u \in Operators, t \in Accounts : DeleteUser(u, t)
  \/ \E token \in TokenInputs : Me(token)
  \/ \E token \in TokenInputs : AdminUsers(token)

SpecAuth == InitAuth /\ [][NextAuth]_vars

GuardedOps == {"me", "adminUsers"}

\* The account a signed credential refers to
RefersTo(token) ==
  IF token.kind = "jwt" THEN {token.userId} ELSE {}

Absent(token) == token.kind = "raw" /\ token.text = ""

Malformed(token) ==
  \/ token.kind = "raw" /\ token.text # "" /\ ~StartsWith(token.text, TestPrefix)
  \/ token.kind = "jwt" /\ token.secret # ServerSecret

Expired(token) == token.kind = "jwt" /\ session.now >= token.exp

Rejected401(req) == req.sent = <<401>> /\ ~req.handled /\ req.user = ""

\* C15: a request whose credential is absent, malformed, expired, or refers
\* to an account that does not exist or is inactive is answered 401 and its
\* handler never runs.
C15_GuardRejectsBadCredentials ==
  [][resp'.op \in GuardedOps
        => LET token == http'.token
           IN  (\/ Absent(token)
                \/ Malformed(token)
                \/ Expired(token)
                \/ \E u \in RefersTo(token) :
                      u \notin DOMAIN users \/ ~users[u].isActive)
               => Rejected401(http')]_vars

\* C16: a request is handled as user U only if its credential is one that
\* login issued and that carries U's id.
C16_OnlyIssuedCredentials ==
  [][(resp'.op \in GuardedOps /\ http'.handled)
        => /\ http'.token \in session.issued
           /\ http'.token.userId = http'.user]_vars

ConfiguredForms == {"seconds", "millis", "date"}

\* C17: under a configured cutoff, in any of its three forms, a handled
\* request carries a credential issued at or after the cutoff instant, an
\* issued credential older than the cutoff is answered 401, and an issued,
\* unexpired credential of an existing account that is not older than the
\* cutoff is let through by auth.
C17_CutoffInvalidates ==
  [][(resp'.op \in GuardedOps /\ session.env.cutoff.form \in ConfiguredForms)
        => LET token == http'.token
               at == session.env.cutoff.at
           IN  /\ http'.handled => (token.kind = "jwt" /\ token.iat >= at)
               /\ (token \in session.issued /\ token.iat < at) => Rejected401(http')
               /\ (/\ resp'.op = "me"
                   /\ token \in session.issued
                   /\ token.iat >= at
                   /\ ~Expired(token)
                   /\ token.userId \in DOMAIN users) => http'.handled]_vars

\* C18: behind adminAuth the handler runs only for a request that passed
\* auth as an admin; an authenticated non-admin is answered 403, a request
\* that failed auth 401, the handler runs in neither case, and exactly one
\* response is written.
C18_AdminGuard ==
  [][resp'.op = "adminUsers"
        => LET a == auth(http'.token)
           IN  /\ http'.handled => (a.next /\ users[a.user].isAdmin)
               /\ (a.next /\ ~users[a.user].isAdmin)
                     => (http'.sent = <<403>> /\ ~http'.handled)
               /\ ~a.next => (http'.sent = <<401>> /\ ~http'.handled)
               /\ Len(http'.sent) = 1]_vars

\* A request that failed auth behind adminAuth: one 401 on the wire, the
\* second write refused
C18_Witness ==
  /\ resp.op = "adminUsers"
  /\ http.sent = <<401>>
  /\ http.thrown
  /\ ~http.handled

(***************************************************************************)
(* SpecNotify: orders are placed while the notification writes for some    *)
(* admins fail; user u2 is promoted and demoted in between.                *)
(***************************************************************************)
FailingInputs == SUBSET {"u1", "u2"}

\* The environment decides for which recipients Notification.create rejects
SetFailing(F) ==
  /\ failing # F
  /\ failing' = F
  /\ UNCHANGED <<users, catalogs, products, orders, nextId, session, http,
                 notifications, resp, runtime>>

NextNotify ==
  \/ \E u \in Sellers :
        nextId.catalog <= MaxCatalogs /\ CreateCatalog(u, PublicCatalogBody)
  \/ \E u \in Sellers, c \in CatalogIds :
        nextId.product <= MaxProducts /\ AddProduct(u, c, ProductBody(Some("p"), 100))
  \/ \E u \in Sellers, t \in RoleTargets, role \in RoleInputs : UpdateUser(u, t, role)
  \/ \E F \in FailingInputs : SetFailing(F)
  \/ \E u \in UserIds, body \in SingleItemBodies : CreateOrder(u, body)

SpecNotify == Init /\ [][NextNotify]_vars

\* The notifications persisted for admin a about order o
NotificationsFor(a, o) ==
  {i \in DOMAIN notifications :
      notifications[i].user = a /\ notifications[i].orderId = o}

\* C19: once the order is saved, the request is answered 201 and the order
\* is in the store, whatever happens to the notification writes.
C19_NotifyNeverFailsOrder ==
  [][(resp'.op = "createOrder" /\ nextId'.order # nextId.order)
        => /\ resp'.status = 201
           /\ resp'.target = nextId.order
           /\ nextId.order \in DOMAIN orders'
           /\ \A o \in DOMAIN orders : o \in DOMAIN orders' /\ orders'[o] = orders[o]]_vars

\* An order was placed and answered 201 although an admin's notification
\* could not be written
C19_Witness ==
  /\ resp.op = "createOrder"
  /\ resp.status = 201
  /\ resp.target \in DOMAIN orders
  /\ \E a \in failing : a \in DOMAIN users /\ users[a].isAdmin
                          /\ NotificationsFor(a, resp.target) = {}

\* C20: after an order is placed, every admin whose own notification write
\* did not fail holds exactly one notification for that order.
C20_FanOutIsolated ==
  [][(resp'.op = "createOrder" /\ resp'.status = 201)
        => \A a \in DOMAIN users :
              (users[a].isAdmin /\ a \notin failing)
                => Cardinality({i \in DOMAIN notifications' :
                      /\ notifications'[i].user = a
                      /\ notifications'[i].orderId = resp'.target}) = 1]_vars

(***************************************************************************)
(* SpecUsers: catalogs with allow-lists are created and re-configured      *)
(* while admins delete user accounts.                                      *)
(***************************************************************************)
NextUsers ==
  \/ \E u \in UserIds, body \in CreateBodiesOver(EditLists) :
        nextId.catalog <= MaxCatalogs /\ CreateCatalog(u, body)
  \/ \E u \in UserIds, c \in CatalogIds, body \in PermissionBodiesOver(EditLists) :
        UpdatePermissions(u, c, body)
  \/ \E u \in UserIds, c \in CatalogIds : GetCatalog(u, c)
  \/ \E u \in UserIds, t \in UserIds : DeleteUser(u, t)

SpecUsers == Init /\ [][NextUsers]_vars

\* The users an allow-list names, in canonical form
ListedUsers(catalog) ==
  {CanonicalId(catalog.allowedUserIds[i]) : i \in DOMAIN catalog.allowedUserIds}

\* C21: once DELETE /api/users/:id has removed a user, no catalog's
\* allowedUserIds contains that user's id any more.
C21_DeleteUserCascades ==
  [][(resp'.op = "deleteUser" /\ resp'.status = 200)
        => \A t \in DOMAIN users \ DOMAIN users' :
              \A c \in DOMAIN catalogs' : t \notin ListedUsers(catalogs'[c])]_vars

(***************************************************************************)
(* SpecSerial: products are added to one catalog, re-numbered and deleted. *)
(* The database either went through the seed script, which creates the     *)
(* unique index on serialNumber (unnamed/part_000:35), or it did not: the  *)
(* schema itself declares no unique index (models/Product.js:18-22).       *)
(***************************************************************************)
SerialInputs == {"s1", " s1", "s2"}

SerialAddBodies ==
  {[name |-> Some("p"), serialNumber |-> sn, price |-> 100, size |-> "M"] :
     sn \in Optional(SerialInputs)}

SerialEditBodies ==
  {[name |-> Undefined, serialNumber |-> Some(sn), price |-> Undefined,
    size |-> Undefined] : sn \in SerialInputs}

InitSerial ==
  /\ users = SeedUsers
  /\ catalogs = <<>>
  /\ products = <<>>
  /\ orders = <<>>
  /\ nextId = [catalog |-> 1, product |-> 1, order |-> 1]
  /\ session = [now |-> Epoch, issued |-> {}, env |-> DefaultEnv]
  /\ http = NoRequest
  /\ notifications = <<>>
  /\ failing = {}
  /\ dbIndexes \in {{}, SeededIndexes}
  /\ sockets = <<>>
  /\ socketsByUser = <<>>
  /\ inflight = {}
  /\ resp = Reply("none", "", 0, 0)

NextSerial ==
  \/ \E u \in Sellers :
        nextId.catalog <= MaxCatalogs /\ CreateCatalog(u, PublicCatalogBody)
  \/ \E u \in UserIds, c \in CatalogIds, body \in SerialAddBodies :
        nextId.product <= MaxOrderProducts /\ AddProduct(u, c, body)
  \/ \E u \in Sellers, p \in OrderProductIds, body \in SerialEditBodies :
        UpdateProduct(u, p, body)
  \/ \E u \in Sellers, p \in OrderProductIds : DeleteProduct(u, p)

SpecSerial == InitSerial /\ [][NextSerial]_vars

\* The serial number is already used by a product other than `self`
SerialTaken(sn, self) ==
  \E q \in DOMAIN products \ {self} : products[q].serialNumber = trim(sn)

\* C22: no two existing products share a serialNumber: adding a product
\* with a serialNumber another product already uses, or changing a
\* product's serialNumber to such a value, is answered Conflict (409) and leaves
\* the products and the catalog's product list as they were.
C22_SerialNumberUnique ==
  [][/\ \A u \in Sellers, c \in CatalogIds, body \in SerialAddBodies :
          (/\ c \in DOMAIN catalogs
           /\ IsDefined(body.serialNumber)
           /\ SerialTaken(ValueOf(body.serialNumber), 0)
           /\ resp'.op = "addProduct" /\ resp'.caller = u /\ resp'.target = c
           /\ AddProduct(u, c, body))
            => /\ resp'.status = 409
               /\ products' = products /\ catalogs' = catalogs
     /\ \A u \in Sellers, p \in OrderProductIds, body \in SerialEditBodies :
          (/\ p \in DOMAIN products
           /\ SerialTaken(ValueOf(body.serialNumber), p)
           /\ resp'.op = "updateProduct" /\ resp'.caller = u /\ resp'.target = p
           /\ UpdateProduct(u, p, body))
            => /\ resp'.status = 409
               /\ products' = products /\ catalogs' = catalogs
     /\ \A p \in DOMAIN products', q \in DOMAIN products' :
          p # q => products'[p].serialNumber # products'[q].serialNumber]_vars

\* C25: DELETE /:id/products/:productId, sent by a caller who may edit the
\* named catalog, deletes the product when it exists and belongs to that
\* catalog; for a product id that does not exist, or that belongs to another
\* catalog, it answers 404 and deletes no product.
C25_RemoveOnlyOwnProduct ==
  [][resp'.op = "removeProduct"
        => \A p \in OrderProductIds :
              LET u == resp'.caller
                  c == resp'.target
              IN  (/\ c \in DOMAIN catalogs
                   /\ canUserEdit(catalogs[c], ReqUserId(u), Role(u))
                   /\ RemoveProduct(u, c, p))
                    => IF p \in DOMAIN products /\ products[p].catalogId = c
                       THEN products' = WithoutKey(products, p)
                       ELSE resp'.status = 404 /\ products' = products]_vars

\* The ids in a catalog's product list
ListedProducts(catalog) == {catalog.products[i] : i \in DOMAIN catalog.products}

\* C26: after every completed operation each catalog's product list and the
\* existing products whose catalogId is that catalog are the same set, and
\* every existing product names an existing catalog.
C26_ListsMatchProducts ==
  /\ \A c \in DOMAIN catalogs :
        ListedProducts(catalogs[c])
          = {p \in DOMAIN products : products[p].catalogId = c}
  /\ \A p \in DOMAIN products : products[p].catalogId \in DOMAIN catalogs

\* C27: the visibility configuration (isPublic, allowedUserIds) of an
\* existing catalog changes only in a step taken for an authenticated caller
\* who is an admin or the catalog's owner.
C27_VisibilityChangedByAdminOrOwner ==
  [][\A c \in DOMAIN catalogs \cap DOMAIN catalogs' :
        (\/ catalogs'[c].isPublic # catalogs[c].isPublic
         \/ catalogs'[c].allowedUserIds # catalogs[c].allowedUserIds)
          => /\ resp'.caller \in DOMAIN users
             /\ \/ Role(resp'.caller) = "admin"
                \/ IsCanonicalOwner(catalogs[c], resp'.caller)]_vars

(***************************************************************************)
(* SpecRead: orders are placed and read back through the three read        *)
(* routes, while an admin may delete another user's account.               *)
(***************************************************************************)
ReadStatusFilters == {Undefined, Some("pending")}

ReadFilters ==
  [status : ReadStatusFilters, userId : Optional({"u3"})]

NextRead ==
  \/ \E u \in Sellers :
        nextId.catalog <= MaxCatalogs /\ CreateCatalog(u, PublicCatalogBody)
  \/ \E u \in Sellers, c \in CatalogIds :
        nextId.product <= MaxProducts /\ AddProduct(u, c, ProductBody(Some("p"), 100))
  \/ \E u \in UserIds, body \in SingleItemBodies : CreateOrder(u, body)
  \/ \E u \in UserIds, o \in OrderIds : CancelOrder(u, o)
  \/ \E u \in UserIds, filters \in ReadFilters : ListOrders(u, filters)
  \/ \E u \in UserIds, status \in ReadStatusFilters : MyOrders(u, status)
  \/ \E u \in UserIds, o \in OrderIds : GetOrder(u, o)
  \/ \E u \in UserIds, t \in UserIds : DeleteUser(u, t)

SpecRead == Init /\ [][NextRead]_vars

\* C30: an order is returned only to an admin or to the user who placed it.
\* GET /api/orders/:id on an existing order answers 403 to every other
\* caller and 200 with that order to an admin or the owner; GET
\* /api/orders/my returns only orders whose userId is the caller; GET
\* /api/orders answers 403 with no order to a non-admin.  No read changes
\* the store.
C30_OrderReadAccess ==
  [][/\ (resp'.op = "getOrder" /\ resp'.target \in DOMAIN orders)
          => LET u == resp'.caller
                 o == resp'.target
                 entitled == Role(u) = "admin" \/ orders[o].userId = ReqUserId(u)
             IN  GetOrder(u, o)
                   => /\ resp'.status = (IF entitled THEN 200 ELSE 403)
                      /\ resp'.list = (IF entitled THEN {o} ELSE {})
                      /\ UNCHANGED store
     /\ resp'.op = "myOrders"
          => \A status \in ReadStatusFilters :
                MyOrders(resp'.caller, status)
                  => /\ \A o \in resp'.list :
                           o \in DOMAIN orders /\ orders[o].userId = resp'.caller
                     /\ UNCHANGED store
     /\ resp'.op = "listOrders"
          => \A filters \in ReadFilters :
                (Role(resp'.caller) # "admin" /\ ListOrders(resp'.caller, filters))
                  => /\ resp'.status = 403 /\ resp'.list = {}
                     /\ UNCHANGED store]_vars

\* Plain user u3 asked for the order another user placed and was refused
C30_Witness ==
  /\ resp.op = "getOrder" /\ resp.status = 403 /\ resp.caller = "u3"
  /\ resp.target \in DOMAIN orders
  /\ orders[resp.target].userId # "u3"
  /\ "u3" \in DOMAIN users /\ ~users["u3"].isAdmin

(***************************************************************************)
(* Handlers in flight.  A handler yields at every await; the two order     *)
(* routes that read a document, decide and save it are split here at the   *)
(* await of order.save(), so that another request can be served between    *)
(* the read and the write.  order.save() sends an update of the modified   *)
(* paths filtered by _id alone (the schema sets no optimisticConcurrency), *)
(* and rejects when the document no longer exists.                         *)
(***************************************************************************)
MaxInflight == 2

Pending(op, u, o, status) ==
  [op |-> op, caller |-> u, target |-> o, status |-> status,
   admins |-> <<>>, step |-> 0]

\* PUT /api/orders/:id/cancel up to `await order.save()`
CancelOrderRead(u, o) ==
  /\ Authenticated(u)
  /\ IF o \notin DOMAIN orders
     THEN /\ resp' = Reply("cancelOrder", u, o, 404)
          /\ UNCHANGED store
     ELSE IF Role(u) # "admin" /\ orders[o].userId \notin DOMAIN users
     THEN /\ resp' = Reply("cancelOrder", u, o, 500)
          /\ UNCHANGED store
     ELSE IF Role(u) # "admin" /\ orders[o].userId # ReqUserId(u)
     THEN /\ resp' = Reply("cancelOrder", u, o, 403)
          /\ UNCHANGED store
     ELSE IF orders[o].status = "delivered"
     THEN /\ resp' = ReplyMsg("cancelOrder", u, o, 400, "delivered")
          /\ UNCHANGED store
     ELSE IF orders[o].status = "cancelled"
     THEN /\ resp' = ReplyMsg("cancelOrder", u, o, 400, "already cancelled")
          /\ UNCHANGED store
     ELSE /\ Cardinality(inflight) < MaxInflight
          /\ inflight' = inflight \cup {Pending("cancelOrder", u, o, "cancelled")}
          /\ UNCHANGED <<users, catalogs, products, orders, nextId, session, http,
                         notifications, failing, dbIndexes, sockets, socketsByUser,
                         resp>>

\* PUT /api/orders/:id/status up to `await order.save()`
UpdateOrderStatusRead(u, o, status) ==
  /\ Authenticated(u)
  /\ IF Role(u) # "admin"
     THEN /\ resp' = Reply("updateOrderStatus", u, o, 403)
          /\ UNCHANGED store
     ELSE IF ~IsDefined(status) \/ ValueOf(status) \notin ValidStatuses
     THEN /\ resp' = Reply("updateOrderStatus", u, o, 400)
          /\ UNCHANGED store
     ELSE IF o \notin DOMAIN orders
     THEN /\ resp' = Reply("updateOrderStatus", u, o, 404)
          /\ UNCHANGED store
     ELSE /\ Cardinality(inflight) < MaxInflight
          /\ inflight' = inflight
                \cup {Pending("updateOrderStatus", u, o, ValueOf(status))}
          /\ UNCHANGED <<users, catalogs, products, orders, nextId, session, http,
                         notifications, failing, dbIndexes, sockets, socketsByUser,
                         resp>>

\* `await order.save()` and the response, for either route
OrderSave(r) ==
  /\ r \in inflight
  /\ r.op \in {"cancelOrder", "updateOrderStatus"}
  /\ inflight' = inflight \ {r}
  /\ IF r.target \notin DOMAIN orders
     THEN /\ resp' = Reply(r.op, r.caller, r.target, 500)
          /\ UNCHANGED orders
     ELSE /\ orders' = [orders EXCEPT ![r.target].status = r.status]
          /\ resp' = Reply(r.op, r.caller, r.target, 200)
  /\ UNCHANGED <<users, catalogs, products, nextId, session, http,
                 notifications, failing, dbIndexes, sockets, socketsByUser>>

(***************************************************************************)
(* SpecRace: one order, cancel requests and admin status requests served   *)
(* concurrently.                                                           *)
(***************************************************************************)
NextRace ==
  \/ \E u \in Sellers :
        nextId.catalog <= MaxCatalogs /\ CreateCatalog(u, PublicCatalogBody)
  \/ \E u \in Sellers, c \in CatalogIds :
        nextId.product <= MaxProducts /\ AddProduct(u, c, ProductBody(Some("p"), 100))
  \/ \E u \in Buyers, body \in SingleItemBodies : CreateOrder(u, body)
  \/ \E u \in UserIds, o \in OrderIds : CancelOrderRead(u, o)
  \/ \E u \in UserIds, o \in OrderIds, status \in CancelStatusInputs :
        UpdateOrderStatusRead(u, o, status)
  \/ \E r \in inflight : OrderSave(r)
  \/ \E u \in Sellers, o \in OrderIds : DeleteOrder(u, o)

SpecRace == Init /\ [][NextRace]_vars

\* C28: with cancel and admin status requests interleaved, the write of a
\* cancel request never overwrites a delivered order: the status cancel
\* checked is still the order's status when cancel writes.
C28_CancelNeverOverwritesDelivered ==
  [][\A r \in inflight :
        (r.op = "cancelOrder" /\ OrderSave(r))
          => \A o \in DOMAIN orders \cap DOMAIN orders' :
                orders[o].status = "delivered" => orders'[o].status = "delivered"]_vars

(***************************************************************************)
(* POST /api/orders split at its awaits: the order is saved, then          *)
(* Notification.create is awaited for one admin after the other inside the *)
(* try block, and res.status(201).json follows the loop                    *)
(* (routes/catalogs.js:1057-1126).                                         *)
(***************************************************************************)
\* Up to `await order.save()` and `User.find({ isAdmin: true })`
CreateOrderSave(u, body) ==
  /\ Authenticated(u)
  /\ IF ~validateOrderData(body)
     THEN /\ resp' = ReplyMsg("createOrder", u, 0, 400, "validation")
          /\ UNCHANGED store
     ELSE IF ValueOf(body.catalogId) \notin DOMAIN catalogs
     THEN /\ resp' = ReplyMsg("createOrder", u, 0, 404, "catalog not found")
          /\ UNCHANGED store
     ELSE IF ~hasUserAccess(catalogs[ValueOf(body.catalogId)], ReqUserId(u))
     THEN /\ resp' = ReplyMsg("createOrder", u, 0, 403, "access denied")
          /\ UNCHANGED store
     ELSE LET result == ProcessItems(body.items, catalogs[ValueOf(body.catalogId)], <<>>, 0)
          IN IF result.status # 201
             THEN /\ resp' = ReplyMsg("createOrder", u, 0, result.status, result.msg)
                  /\ UNCHANGED store
             ELSE /\ nextId.order <= MaxOrders
                  /\ Cardinality(inflight) < MaxInflight
                  /\ orders' = orders @@ (nextId.order :> NewOrder(u, body, result))
                  /\ nextId' = [nextId EXCEPT !.order = @ + 1]
                  /\ inflight' = inflight \cup
                        {[op |-> "createOrder", caller |-> u, target |-> nextId.order,
                          status |-> "", admins |-> AdminsInOrder, step |-> 1]}
                  /\ UNCHANGED <<users, catalogs, products, session, http,
                                 notifications, failing, dbIndexes, sockets,
                                 socketsByUser, resp>>

\* `await Notification.create(...)` for the next admin settles: it resolves,
\* or it rejects and the catch ends the loop
NotificationCreate(r) ==
  /\ r \in inflight
  /\ r.op = "createOrder"
  /\ r.step <= Len(r.admins)
  /\ IF r.admins[r.step] \in failing
     THEN /\ inflight' = (inflight \ {r}) \cup {[r EXCEPT !.step = Len(r.admins) + 1]}
          /\ UNCHANGED notifications
     ELSE /\ inflight' = (inflight \ {r}) \cup {[r EXCEPT !.step = @ + 1]}
          /\ notifications' = Append(notifications,
                [user |-> r.admins[r.step], from |-> r.caller, orderId |-> r.target,
                 emitted |-> Emitted(r.admins[r.step])])
  /\ UNCHANGED <<users, catalogs, products, orders, nextId, session, http,
                 failing, dbIndexes, sockets, socketsByUser, resp>>

\* res.status(201).json(orderWithSizes), after the try block
CreateOrderRespond(r) ==
  /\ r \in inflight
  /\ r.op = "createOrder"
  /\ r.step > Len(r.admins)
  /\ inflight' = inflight \ {r}
  /\ resp' = Reply("createOrder", r.caller, r.target, 201)
  /\ UNCHANGED <<users, catalogs, products, orders, nextId, session, http,
                 notifications, failing, dbIndexes, sockets, socketsByUser>>

(***************************************************************************)
(* SpecRespond: orders are placed while notification writes succeed, fail  *)
(* or stay pending.  The handler's own continuation runs whenever it can   *)
(* (weak fairness on the response); nothing obliges a notification write   *)
(* to settle.                                                              *)
(***************************************************************************)
NextRespond ==
  \/ \E u \in Sellers :
        nextId.catalog <= MaxCatalogs /\ CreateCatalog(u, PublicCatalogBody)
  \/ \E u \in Sellers, c \in CatalogIds :
        nextId.product <= MaxProducts /\ AddProduct(u, c, ProductBody(Some("p"), 100))
  \/ \E u \in Sellers, t \in RoleTargets, role \in RoleInputs : UpdateUser(u, t, role)
  \/ \E F \in FailingInputs : SetFailing(F)
  \/ \E u \in UserIds, body \in SingleItemBodies : CreateOrderSave(u, body)
  \/ \E r \in inflight : NotificationCreate(r)
  \/ \E r \in inflight : CreateOrderRespond(r)

SpecRespond ==
  Init /\ [][NextRespond]_vars /\ WF_vars(\E r \in inflight : CreateOrderRespond(r))

\* Order o is saved and its request has not been answered
Unanswered(o) == \E r \in inflight : r.op = "createOrder" /\ r.target = o

\* C23: the response of placeOrder does not wait for the notification
\* fan-out: once the order is saved the caller is answered, whether or not
\* the notification writes ever complete.
C23_ResponseDoesNotWait ==
  \A o \in OrderIds : Unanswered(o) ~> ~Unanswered(o)

(***************************************************************************)
(* Socket.IO connections (server.js:129-201).  A socket keeps the token it *)
(* presented in the handshake and socket.data.userId ("" while unset); a   *)
(* closed socket keeps its record, and its id is never used again.         *)
(***************************************************************************)
MaxSockets == 2

SocketIds == 1..MaxSockets

RECURSIVE IndexOf(_, _, _)
\* String.prototype.indexOf from position i on; 0 when ch does not occur
IndexOf(str, ch, i) ==
  IF i > Len(str) THEN 0
  ELSE IF SubSeq(str, i, i) = ch THEN i
  ELSE IndexOf(str, ch, i + 1)

Includes(str, ch) == IndexOf(str, ch, 1) # 0

\* The e-mail the handshake derives from a test token (server.js:140-149)
SocketTestEmail(text) ==
  LET email == SubSeq(text, Len(TestPrefix) + 1, Len(text))
  IN  IF Includes(email, "@") THEN email
      ELSE IF Includes(email, "-")
      THEN SubSeq(email, 1, IndexOf(email, "-", 1) - 1) \o "@test.com"
      ELSE email \o "@test.com"

\* io.use: the user id the handshake stores in socket.data.userId, "" when
\* it stores none; a failed verification lets the connection continue
socketAuth(token) ==
  IF token.kind = "raw" /\ token.text = "" THEN ""
  ELSE IF token.kind = "raw" /\ StartsWith(token.text, TestPrefix)
  THEN LET found == {u \in DOMAIN users : users[u].email = SocketTestEmail(token.text)}
       IN  IF found = {} THEN "" ELSE CHOOSE u \in found : TRUE
  ELSE IF jwtVerify(token) # "ok" THEN ""
  ELSE IF token.userId \in DOMAIN users THEN token.userId
  ELSE ""

\* socketsByUser.get(uid).add(sid), creating the set when the key is new
Register(map, uid, sid) ==
  IF uid \in DOMAIN map THEN [map EXCEPT ![uid] = @ \cup {sid}]
  ELSE map @@ (uid :> {sid})

\* socketsByUser.get(uid).delete(sid), deleting the key with its last socket
Unregister(map, uid, sid) ==
  IF uid \notin DOMAIN map THEN map
  ELSE IF map[uid] \ {sid} = {} THEN WithoutKey(map, uid)
  ELSE [map EXCEPT ![uid] = @ \ {sid}]

\* A client connects: io.use, then io.on('connection')
Connect(token) ==
  LET sid == Cardinality(DOMAIN sockets) + 1
      uid == socketAuth(token)
  IN  /\ sid \in SocketIds
      /\ sockets' = sockets @@ (sid :> [connected |-> TRUE, userId |-> uid,
                                        token |-> token])
      /\ socketsByUser' = IF uid # "" THEN Register(socketsByUser, uid, sid)
                          ELSE socketsByUser
      /\ UNCHANGED <<users, catalogs, products, orders, nextId, session, http,
                     notifications, failing, dbIndexes, inflight, resp>>

\* socket.on('identify', userId)
Identify(sid, userId) ==
  /\ sid \in DOMAIN sockets
  /\ sockets[sid].connected
  /\ IF userId = ""
     THEN UNCHANGED <<sockets, socketsByUser>>
     ELSE /\ socketsByUser' = Register(socketsByUser, userId, sid)
          /\ sockets' = [sockets EXCEPT ![sid].userId = userId]
  /\ UNCHANGED <<users, catalogs, products, orders, nextId, session, http,
                 notifications, failing, dbIndexes, inflight, resp>>

\* socket.on('disconnect')
Disconnect(sid) ==
  /\ sid \in DOMAIN sockets
  /\ sockets[sid].connected
  /\ sockets' = [sockets EXCEPT ![sid].connected = FALSE]
  /\ socketsByUser' = IF sockets[sid].userId # ""
                      THEN Unregister(socketsByUser, sockets[sid].userId, sid)
                      ELSE socketsByUser
  /\ UNCHANGED <<users, catalogs, products, orders, nextId, session, http,
                 notifications, failing, dbIndexes, inflight, resp>>

(***************************************************************************)
(* SpecSocket: clients connect with or without a token, identify and       *)
(* disconnect, while an order is placed and the admins are notified.       *)
(***************************************************************************)
\* No token, the test tokens of u3 and u2, and a token signed with a guess
HandshakeTokens ==
  {RawToken(""), RawToken("test-token-user"), RawToken("test-token-admin-001"),
   Jwt("guess", "u1", Epoch, Epoch + TokenTtl),
   Jwt(ServerSecret, "u3", Epoch, Epoch + TokenTtl)}

IdentifyInputs == {"", "u1", "u3"}

NextSocket ==
  \/ \E token \in HandshakeTokens : Connect(token)
  \/ \E sid \in SocketIds, userId \in IdentifyInputs : Identify(sid, userId)
  \/ \E sid \in SocketIds : Disconnect(sid)
  \/ \E u \in Sellers :
        nextId.catalog <= MaxCatalogs /\ CreateCatalog(u, PublicCatalogBody)
  \/ \E u \in Sellers, c \in CatalogIds :
        nextId.product <= MaxProducts /\ AddProduct(u, c, ProductBody(Some("p"), 100))
  \/ \E u \in Buyers, body \in SingleItemBodies : CreateOrder(u, body)

SpecSocket == Init /\ [][NextSocket]_vars

\* C24: a socket is registered under user id U only if the token it
\* presented in the handshake resolves to U, so that a notification for U
\* is never emitted to a socket that did not present U's credential.
C24_RegisteredByCredential ==
  /\ \A uid \in DOMAIN socketsByUser : \A sid \in socketsByUser[uid] :
        socketAuth(sockets[sid].token) = uid
  /\ \A i \in DOMAIN notifications : \A sid \in notifications[i].emitted :
        socketAuth(sockets[sid].token) = notifications[i].user

\* C29: a disconnected socket id is registered under no user id, and the
\* map holds no user id with an empty set of sockets.
C29_NoStaleRegistration ==
  /\ \A sid \in DOMAIN sockets :
        ~sockets[sid].connected
          => \A uid \in DOMAIN socketsByUser : sid \notin socketsByUser[uid]
  /\ \A uid \in DOMAIN socketsByUser : socketsByUser[uid] # {}

====
